---- MODULE Spec2Model ----
(***************************************************************************)
(* Stacked autoencoder topology (StackedAutoencoder) and its staged        *)
(* trainer (StackedAutoencoderTrainer).                                     *)
(*                                                                         *)
(* Two specifications:                                                     *)
(*   SpecBuild  the StackedAutoencoder constructor, one build step at a    *)
(*              time, over every layer-size specification and flag setting *)
(*   Spec       the trainer driven through arbitrary sequences of phase    *)
(*              calls over a constructed topology                           *)
(***************************************************************************)
EXTENDS Integers, Sequences, FiniteSets, TLC

VARIABLES
  main,                      \* the main program: its flags, its position, what it did so far
  sae,                       \* the StackedAutoencoder (topology + graph views)
  ctor_pc,                   \* position inside StackedAutoencoder's constructor
  machine,                   \* trainer: active machine (graph id)
  criterion,                 \* trainer: active criterion
  layerwise_training,
  layerwise_layer,
  topK_training,
  topKlayers,
  is_finetuning,
  profile_gradients,
  do_eval_criterion_weights,
  epoch,
  criterions_weights,        \* real[n_hidden_layers+1]
  finetuning_learning_rates, \* real[n_hidden_layers+1]
  sup_dataset,               \* "uninit" until TrainSupUnsup assigns it
  selective_machine,         \* graph built by TrainSelectiveUnsup
  partial_backprop,          \* module -> partial-backprop flag
  changed,                   \* parameter groups modified since the phase call began
  bwd_seen,                  \* modules given a backward call since the phase call began
  bwd_calls,                 \* backward calls of the last fpropbprop, in order
  upd_calls,                 \* updates of the last UpdateMachine request, in order
  gradients,                 \* parameter group -> what its gradient buffer holds after the last example
  saved_grads,               \* profiling: saved gradient -> what was copied into it
  phase,                     \* the phase call in progress / last returned
  pc                         \* trainer position

vars == <<main, sae, ctor_pc, machine, criterion, layerwise_training,
          layerwise_layer,
          topK_training, topKlayers, is_finetuning, profile_gradients,
          do_eval_criterion_weights, epoch, criterions_weights,
          finetuning_learning_rates, sup_dataset, selective_machine,
          partial_backprop, changed, bwd_seen, bwd_calls,
          upd_calls, gradients, saved_grads, phase, pc>>

trainer_vars == <<machine, criterion, layerwise_training, layerwise_layer,
          topK_training, topKlayers, is_finetuning, profile_gradients,
          do_eval_criterion_weights, epoch, criterions_weights,
          finetuning_learning_rates, sup_dataset, selective_machine,
          partial_backprop, changed, bwd_seen, bwd_calls,
          upd_calls, gradients, saved_grads, phase, pc>>

----------------------------------------------------------------------------
(* Bounds *)

MaxLayers == 3

MaxWidth == 2

MaxEpoch == 2

----------------------------------------------------------------------------
(* Module handles *)

Enc(i) == <<"encoder", i>>

NEnc(i) == <<"noisy_encoder", i>>

Dec(i) == <<"decoder", i>>

AE(i) == <<"autoencoder", i>>

Outputer == <<"outputer", 0>>

InputHandle == <<"input_handle_machine", 0>>

NoCoder == <<"NULL", 0>>

Layers(s) == 0 .. (s.n_hidden_layers - 1)

----------------------------------------------------------------------------
(* ConnectedMachine: modules in insertion order, the layer each sits on,   *)
(* consumer->producer links, a built flag, a structural-error flag, the    *)
(* number of build() calls and whether anything was added after build().   *)

NewConnectedMachine ==
  [mods |-> <<>>, layerOf |-> <<>>, links |-> {}, cur |-> 0,
   built |-> FALSE, err |-> FALSE, n_builds |-> 0, late |-> FALSE]

ModuleSet(g) == { g.mods[k] : k \in 1 .. Len(g.mods) }

OnLayer(g, l) == { g.mods[k] : k \in { j \in 1 .. Len(g.mods) : g.layerOf[j] = l } }

addMachine(g, m) ==
  [g EXCEPT !.mods = Append(@, m),
            !.layerOf = Append(@, g.cur),
            !.err = @ \/ g.built,
            !.late = @ \/ g.built]

connectOn(g, p) ==
  LET c == g.mods[Len(g.mods)]
      known == p \in ModuleSet(g)
  IN [g EXCEPT !.links = @ \cup {<<c, p>>},
               !.err = @ \/ g.built \/ ~known,
               !.late = @ \/ g.built]

addLayer(g) ==
  [g EXCEPT !.cur = @ + 1,
            !.err = @ \/ g.built,
            !.late = @ \/ g.built]

addFCL(g, m) ==
  IF Len(g.mods) = 0
  THEN addMachine(g, m)
  ELSE LET prev == OnLayer(g, g.cur)
           g1 == addMachine(addLayer(g), m)
       IN [g1 EXCEPT !.links = @ \cup { <<m, p>> : p \in prev }]

Producers(g, m) == { l[2] : l \in { x \in g.links : x[1] = m } }

Consumers(g, m) == { l[1] : l \in { x \in g.links : x[2] = m } }

build(g) ==
  LET orphan == \E k \in 1 .. Len(g.mods) :
                   g.layerOf[k] > 0 /\ Producers(g, g.mods[k]) = {}
  IN [g EXCEPT !.built = TRUE,
               !.err = @ \/ g.built \/ orphan \/ Len(g.mods) = 0,
               !.n_builds = @ + 1]

----------------------------------------------------------------------------
(* Coder *)

Coder(n_inputs, n_outputs, is_noisy, tied_coder, is_transposed) ==
  [n_inputs |-> n_inputs, n_outputs |-> n_outputs, is_noisy |-> is_noisy,
   tied_coder |-> tied_coder, is_transposed |-> is_transposed]

----------------------------------------------------------------------------
(* StackedAutoencoder constructor *)

NoArray == [i \in {} |-> NoCoder]

StackedAutoencoderFields(n_hidden_layers_, units, tied_weights_, is_noisy_) ==
  [n_hidden_layers |-> n_hidden_layers_,
   n_units_per_layer |-> units,
   tied_weights |-> tied_weights_,
   is_noisy |-> is_noisy_,
   encoders |-> NoArray, noisy_encoders |-> NoArray, decoders |-> NoArray,
   outputer |-> NoCoder,
   autoencoders |-> NoArray, mesd_machines |-> NoArray,
   sup_machine |-> NewConnectedMachine,
   unsup_machine |-> NewConnectedMachine,
   sup_unsup_machine |-> NewConnectedMachine,
   \* the "l1 weight decay" and "weight decay" options set so far, per module
   l1_weight_decay |-> NoArray, l2_weight_decay |-> NoArray]

EncoderCoder(s, i) ==
  Coder(s.n_units_per_layer[i], s.n_units_per_layer[i + 1], FALSE, NoCoder, FALSE)

NoisyEncoderCoder(i, e) ==
  Coder(e.n_inputs, e.n_outputs, TRUE, Enc(i), FALSE)

DecoderCoder_swapped(s, i, e) ==
  IF s.tied_weights
  THEN Coder(e.n_inputs, e.n_outputs, FALSE, Enc(i), TRUE)
  ELSE Coder(e.n_inputs, e.n_outputs, FALSE, NoCoder, FALSE)

DecoderCoder_never_tied(s, i, e) ==
  Coder(e.n_outputs, e.n_inputs, FALSE, NoCoder, FALSE)

DecoderCoder(s, i, e) ==
  IF s.tied_weights
  THEN Coder(e.n_outputs, e.n_inputs, FALSE, Enc(i), TRUE)
  ELSE Coder(e.n_outputs, e.n_inputs, FALSE, NoCoder, FALSE)

BuildCoders(s) ==
  LET enc == [i \in Layers(s) |-> EncoderCoder(s, i)]
  IN [s EXCEPT
        !.encoders = enc,
        !.noisy_encoders =
           IF s.is_noisy
           THEN [i \in Layers(s) |-> NoisyEncoderCoder(i, enc[i])]
           ELSE NoArray,
        !.decoders = [i \in Layers(s) |-> DecoderCoder(s, i, enc[i])],
        !.outputer = Coder(s.n_units_per_layer[s.n_hidden_layers],
                           s.n_units_per_layer[s.n_hidden_layers + 1],
                           FALSE, NoCoder, FALSE)]

CodingModule_plain(s, i) == Enc(i)

\* the encoder-side module of layer i's autoencoder
CodingModule(s, i) == IF s.is_noisy THEN NEnc(i) ELSE Enc(i)

BuildAutoencoders(s) ==
  [s EXCEPT !.autoencoders =
     [i \in Layers(s) |->
        build(addFCL(addFCL(NewConnectedMachine, CodingModule(s, i)), Dec(i)))]]

RECURSIVE MesdLowerEncoders(_, _, _)
MesdLowerEncoders(g, j, i) ==
  IF j < i THEN MesdLowerEncoders(addFCL(g, Enc(j)), j + 1, i) ELSE g

BuildMesdMachines(s) ==
  [s EXCEPT !.mesd_machines =
     [i \in Layers(s) |->
        build(addFCL(addFCL(MesdLowerEncoders(NewConnectedMachine, 0, i),
                            CodingModule(s, i)),
                     Dec(i)))]]

RECURSIVE SupEncoders(_, _, _)
SupEncoders(s, g, i) ==
  IF i < s.n_hidden_layers THEN SupEncoders(s, addFCL(g, Enc(i)), i + 1) ELSE g

BuildSupMachine(s) ==
  [s EXCEPT !.sup_machine =
     build(addFCL(SupEncoders(s, NewConnectedMachine, 0), Outputer))]

RECURSIVE AddCoreMachinesFrom(_, _, _)
AddCoreMachinesFrom(s, mch, i) ==
  IF i < s.n_hidden_layers
  THEN LET g1 == addMachine(mch, Enc(i))
           g2 == IF i > 0 THEN connectOn(g1, Enc(i - 1)) ELSE g1
           g3 == IF i = 0 /\ s.is_noisy THEN addMachine(g2, InputHandle) ELSE g2
       IN AddCoreMachinesFrom(s, addLayer(g3), i + 1)
  ELSE mch

AddCoreMachines(s, mch) == AddCoreMachinesFrom(s, mch, 0)

RECURSIVE AddEncodersFrom(_, _, _, _)
AddEncodersFrom(mch, i, index_up_to_included, add_input_handle) ==
  IF i < index_up_to_included + 1
  THEN LET g1 == addMachine(mch, Enc(i))
           g2 == IF i > 0 THEN connectOn(g1, Enc(i - 1)) ELSE g1
           g3 == IF i = 0 /\ add_input_handle THEN addMachine(g2, InputHandle) ELSE g2
       IN AddEncodersFrom(addLayer(g3), i + 1, index_up_to_included, add_input_handle)
  ELSE mch

AddEncodersUpToIncluded(mch, index_up_to_included, add_input_handle) ==
  LET g == AddEncodersFrom(mch, 0, index_up_to_included, add_input_handle)
  IN IF index_up_to_included < 0 /\ add_input_handle
     THEN addLayer(addMachine(g, InputHandle))
     ELSE g

\* one reconstruction branch, as added by AddUnsupMachines and by the
\* decoder loop of TrainSelectiveUnsup
AddUnsupBranch(s, mch, i) ==
  IF ~s.is_noisy
  THEN connectOn(addMachine(mch, Dec(i)), Enc(i))
  ELSE IF i > 0
       THEN connectOn(addMachine(mch, AE(i)), Enc(i - 1))
       ELSE connectOn(addMachine(mch, AE(i)), InputHandle)

RECURSIVE AddUnsupMachinesFrom(_, _, _)
AddUnsupMachinesFrom(s, mch, i) ==
  IF i < s.n_hidden_layers
  THEN AddUnsupMachinesFrom(s, AddUnsupBranch(s, mch, i), i + 1)
  ELSE mch

AddUnsupMachines(s, mch) == AddUnsupMachinesFrom(s, mch, 0)

UnsupAddsEncoder_always(s, i) == TRUE

UnsupAddsEncoder_keepfirst(s, i) ==
  (i < s.n_hidden_layers - 1) \/ ~s.is_noisy \/ i = 0

\* the test of lines 242 and 255: is encoders[i] a module of unsup_machine?
UnsupAddsEncoder(s, i) == (i < s.n_hidden_layers - 1) \/ ~s.is_noisy

RECURSIVE UnsupEncodersFrom(_, _, _)
UnsupEncodersFrom(s, g, i) ==
  IF i < s.n_hidden_layers
  THEN LET g1 == IF UnsupAddsEncoder(s, i)
                 THEN LET a == addMachine(g, Enc(i))
                      IN IF i > 0 THEN connectOn(a, Enc(i - 1)) ELSE a
                 ELSE g
           g2 == IF i = 0 /\ s.is_noisy THEN addMachine(g1, InputHandle) ELSE g1
           g3 == IF UnsupAddsEncoder(s, i)
                 THEN addLayer(g2)
                 ELSE IF i = 0 /\ s.is_noisy THEN addLayer(g2) ELSE g2
       IN UnsupEncodersFrom(s, g3, i + 1)
  ELSE g

BuildUnsupMachine(s) ==
  [s EXCEPT !.unsup_machine =
     build(AddUnsupMachines(s, UnsupEncodersFrom(s, NewConnectedMachine, 0)))]

BuildSupUnsupMachine(s) ==
  [s EXCEPT !.sup_unsup_machine =
     build(AddUnsupMachines(s,
             connectOn(addMachine(AddCoreMachines(s, NewConnectedMachine), Outputer),
                       Enc(s.n_hidden_layers - 1))))]

\* linear_layer->setROption(name, value) on each module of targets
setROption(options, targets, value) ==
  [m \in DOMAIN options \cup targets |->
     IF m \in targets THEN value ELSE options[m]]

WeightDecayTargets_decoders_always(s) ==
  { Enc(i) : i \in Layers(s) } \cup {Outputer} \cup { Dec(i) : i \in Layers(s) }

\* the modules the loops of setL1WeightDecay and setL2WeightDecay reach:
\* every encoder, the outputer and, unless the weights are tied, every decoder
WeightDecayTargets(s) ==
  { Enc(i) : i \in Layers(s) } \cup {Outputer}
  \cup (IF ~s.tied_weights THEN { Dec(i) : i \in Layers(s) } ELSE {})

setL1WeightDecay(s, weight_decay) ==
  [s EXCEPT !.l1_weight_decay = setROption(@, WeightDecayTargets(s), weight_decay)]

setL2WeightDecay(s, weight_decay) ==
  [s EXCEPT !.l2_weight_decay = setROption(@, WeightDecayTargets(s), weight_decay)]

\* the whole constructor
StackedAutoencoder(n_hidden_layers_, units, tied_weights_, is_noisy_) ==
  BuildSupUnsupMachine(BuildUnsupMachine(BuildSupMachine(BuildMesdMachines(
    BuildAutoencoders(BuildCoders(
      StackedAutoencoderFields(n_hidden_layers_, units, tied_weights_, is_noisy_)))))))

----------------------------------------------------------------------------
(* Criteria, machine handles and the trainer's constructor *)

SimpleCriterion(kind, layer) ==
  [kind |-> kind, layer |-> layer, n_criterions |-> 0, criterions |-> <<>>,
   weights |-> "NULL"]

SupCriterion == SimpleCriterion("sup_criterion", 0)

UnsupCriterion(i) == SimpleCriterion("unsup_criterion", i)

ConcatCriterion(n_criterions, the_criterions, weights) ==
  [kind |-> "concat_criterion", layer |-> 0, n_criterions |-> n_criterions,
   criterions |-> the_criterions, weights |-> weights]

W(k) == <<"const", k>>

Hess(i) == <<"hessian", i>>

SaeM == <<"sae", 0>>

MesdM(i) == <<"mesd_machine", i>>

UnsupM == <<"unsup_machine", 0>>

SupUnsupM == <<"sup_unsup_machine", 0>>

SelectiveM == <<"selective_machine", 0>>

PhaseRec(name, list, pb, k, w) ==
  [name |-> name, pretrain_list |-> list, partial_backprop |-> pb,
   top_k_layers |-> k, weight |-> w]

NoPhase == PhaseRec("none", <<>>, FALSE, 0, W(0))

FlagModules(s) ==
  { Enc(i) : i \in Layers(s) } \cup { AE(i) : i \in Layers(s) } \cup {Outputer}

\* StackedAutoencoderTrainer::StackedAutoencoderTrainer
TrainerConstructed(s, do_eval_criterion_weights_) ==
  /\ machine = SaeM
  /\ criterion = SupCriterion
  /\ do_eval_criterion_weights = do_eval_criterion_weights_
  /\ epoch = 0
  /\ criterions_weights = [i \in 0 .. s.n_hidden_layers |-> W(0)]
  /\ finetuning_learning_rates = [i \in 0 .. s.n_hidden_layers |-> 0]
  /\ layerwise_training = FALSE
  /\ layerwise_layer = 0
  /\ topK_training = FALSE
  /\ topKlayers = 0
  /\ is_finetuning = FALSE
  /\ sup_dataset = "uninit"
  /\ selective_machine = NewConnectedMachine
  /\ partial_backprop = [m \in FlagModules(s) |-> FALSE]
  /\ changed = {}
  /\ bwd_seen = {}
  /\ bwd_calls = <<>>
  /\ upd_calls = <<>>
  /\ gradients = <<>>
  /\ saved_grads = <<>>
  /\ phase = NoPhase
  /\ pc = "idle"

----------------------------------------------------------------------------
(* The main program: flags, configuration checks, program order *)

\* the greatest number of hidden layers the layer-specific rates cover
LayerSpecificLimit == 4

\* the command line flags the control flow of main depends on
MainFlags ==
  [n_layers : {1, LayerSpecificLimit, LayerSpecificLimit + 1},
   finetuning_layer_specific : BOOLEAN,
   init_from_binners : BOOLEAN,
   max_iter_lwu : {0, 1},
   max_iter_uc : {0, 1},
   max_iter_ac : {0, 1},
   max_iter_sc : {0, 1},
   recons_cost : {"xentropy", "mse"},
   nonlinearity : {"tanh", "sigmoid", "nonlinear"},
   selective_layerwise_pretraining : BOOLEAN,
   unsup_trains_outputer : BOOLEAN]

ConfigurationIsFatal_layers_only(f) ==
  f.n_layers > LayerSpecificLimit /\ f.finetuning_layer_specific

\* the three error() calls of lines 236-247
ConfigurationIsFatal(f) ==
  \/ f.recons_cost = "xentropy" /\ f.nonlinearity \notin {"nonlinear", "sigmoid"}
  \/ f.init_from_binners
       /\ (f.max_iter_lwu # 0 \/ f.max_iter_uc # 0 \/ f.max_iter_ac # 0)
  \/ f.n_layers > LayerSpecificLimit /\ f.finetuning_layer_specific

\* the blocks of main in program order
MainSteps ==
  <<"check_configuration", "load_data", "create_model", "create_trainer",
    "save_afterinit", "pretrain", "unsup", "save_afterpretraining",
    "supunsup", "reinit_from_binners", "supervised", "save_final",
    "save_outputs", "exit">>

MainNextStep_save_late(step) ==
  CASE step = "unsup" -> "supunsup"
    [] step = "supunsup" -> "save_afterpretraining"
    [] step = "save_afterpretraining" -> "reinit_from_binners"
    [] OTHER -> (LET k == CHOOSE j \in 1 .. Len(MainSteps) : MainSteps[j] = step
                 IN MainSteps[k + 1])

MainNextStep(step) ==
  LET k == CHOOSE j \in 1 .. Len(MainSteps) : MainSteps[j] = step
  IN MainSteps[k + 1]

Event(kind, name) == [kind |-> kind, name |-> name]

\* the trainer call a training block of main makes, "none" if it is skipped
MainPhaseCall(f, step) ==
  CASE step = "pretrain" ->
         IF f.max_iter_lwu = 0 THEN "none"
         ELSE IF f.selective_layerwise_pretraining
              THEN "TrainSelectiveUnsup" ELSE "TrainUnsupLayerwise"
    [] step = "unsup" ->
         IF f.max_iter_uc = 0 THEN "none"
         ELSE IF f.unsup_trains_outputer
              THEN "TrainUnsup" ELSE "TrainUnsupNotOutput"
    [] step = "supunsup" ->
         IF f.max_iter_ac = 0 THEN "none" ELSE "TrainSupUnsup"
    [] step = "supervised" ->
         IF f.max_iter_sc = 0 THEN "none" ELSE "train"

\* the checkpoint tag a SaveCSAE block writes
MainCheckpointTag(step) ==
  CASE step = "save_afterinit" -> "afterinit"
    [] step = "save_afterpretraining" -> "afterpretraining"
    [] step = "save_final" -> "final"

\* the selective block: int flags[flag_n_layers], written at 0..3 from the
\* four pretrain_layer flags, then read by TrainSelectiveUnsup at every
\* i < n_hidden_layers
SelectiveFlagsArray(f) ==
  [length |-> f.n_layers,
   written |-> 0 .. 3,
   read |-> 0 .. f.n_layers - 1]

\* layer-specific fine-tuning: tmp_lrs has 5 entries, all written from the
\* five lr_ft_layer flags, and is read at every i < flag_n_layers + 1
FinetuneRatesArray(f) ==
  [length |-> 5,
   written |-> 0 .. 4,
   read |-> 0 .. f.n_layers]

\* every access of a is inside a and every entry read was written before
AccessesInBounds(a) ==
  /\ a.written \subseteq 0 .. a.length - 1
  /\ a.read \subseteq 0 .. a.length - 1
  /\ a.read \subseteq a.written

\* does the block use its array as C++ defines it?
MainBlockInBounds(f, step) ==
  CASE step = "pretrain" /\ f.max_iter_lwu # 0 /\ f.selective_layerwise_pretraining ->
         AccessesInBounds(SelectiveFlagsArray(f))
    [] step = "supervised" /\ f.max_iter_sc # 0 /\ f.finetuning_layer_specific ->
         AccessesInBounds(FinetuneRatesArray(f))
    [] OTHER -> TRUE

MainNotRun == [pc |-> "not_run", flags |-> <<>>, log |-> <<>>]

----------------------------------------------------------------------------
(* SpecBuild: the constructor, one build step per action *)

InitBuild ==
  /\ \E n \in 1 .. MaxLayers, tied \in BOOLEAN, noisy \in BOOLEAN :
       \E units \in [0 .. n + 1 -> 1 .. MaxWidth] :
          sae = StackedAutoencoderFields(n, units, tied, noisy)
  /\ ctor_pc = "BuildCoders"
  /\ profile_gradients = FALSE
  /\ TrainerConstructed(sae, FALSE)
  /\ main = MainNotRun

CtorBuildCoders ==
  /\ ctor_pc = "BuildCoders"
  /\ sae' = BuildCoders(sae)
  /\ ctor_pc' = "BuildAutoencoders"
  /\ UNCHANGED <<main, trainer_vars>>

CtorBuildAutoencoders ==
  /\ ctor_pc = "BuildAutoencoders"
  /\ sae' = BuildAutoencoders(sae)
  /\ ctor_pc' = "BuildMesdMachines"
  /\ UNCHANGED <<main, trainer_vars>>

CtorBuildMesdMachines ==
  /\ ctor_pc = "BuildMesdMachines"
  /\ sae' = BuildMesdMachines(sae)
  /\ ctor_pc' = "BuildSupMachine"
  /\ UNCHANGED <<main, trainer_vars>>

CtorBuildSupMachine ==
  /\ ctor_pc = "BuildSupMachine"
  /\ sae' = BuildSupMachine(sae)
  /\ ctor_pc' = "BuildUnsupMachine"
  /\ UNCHANGED <<main, trainer_vars>>

CtorBuildUnsupMachine ==
  /\ ctor_pc = "BuildUnsupMachine"
  /\ sae' = BuildUnsupMachine(sae)
  /\ ctor_pc' = "BuildSupUnsupMachine"
  /\ UNCHANGED <<main, trainer_vars>>

CtorBuildSupUnsupMachine ==
  /\ ctor_pc = "BuildSupUnsupMachine"
  /\ sae' = BuildSupUnsupMachine(sae)
  /\ ctor_pc' = "constructed"
  /\ UNCHANGED <<main, trainer_vars>>

\* the decay values of the command line
Decays == {0, 1}

\* the main program sets both decays on the model it constructed
MainSetWeightDecays ==
  /\ ctor_pc = "constructed"
  /\ \E flag_l1_decay \in Decays, flag_l2_decay \in Decays :
        sae' = setL2WeightDecay(setL1WeightDecay(sae, flag_l1_decay), flag_l2_decay)
  /\ UNCHANGED <<ctor_pc, main, trainer_vars>>

NextBuild ==
  \/ CtorBuildCoders
  \/ CtorBuildAutoencoders
  \/ CtorBuildMesdMachines
  \/ CtorBuildSupMachine
  \/ CtorBuildUnsupMachine
  \/ CtorBuildSupUnsupMachine
  \/ MainSetWeightDecays

SpecBuild == InitBuild /\ [][NextBuild]_vars

----------------------------------------------------------------------------
(* Machines, leaf modules and parameter groups *)

GraphOf(id) ==
  CASE id[1] = "sae" -> sae.sup_machine
    [] id[1] = "mesd_machine" -> sae.mesd_machines[id[2]]
    [] id[1] = "unsup_machine" -> sae.unsup_machine
    [] id[1] = "sup_unsup_machine" -> sae.sup_unsup_machine
    [] id[1] = "selective_machine" -> selective_machine
    [] id[1] = "autoencoder" -> sae.autoencoders[id[2]]

IsMachine(t) ==
  t[1] \in {"sae", "mesd_machine", "unsup_machine", "sup_unsup_machine",
            "selective_machine", "autoencoder"}

\* the Coders a backward call on t reaches (autoencoders are nested machines)
LeafModules(t) ==
  IF IsMachine(t)
  THEN UNION { IF m[1] = "autoencoder"
               THEN ModuleSet(sae.autoencoders[m[2]])
               ELSE {m} : m \in ModuleSet(GraphOf(t)) }
  ELSE {t}

\* parameter groups a Coder reads and accumulates gradient into: a view
\* (noisy encoder) has only its owner's group, a transposed tied decoder its
\* own bias and the owner's weights
ParamsOfModule(m) ==
  CASE m[1] = "encoder" -> {m}
    [] m[1] = "noisy_encoder" -> {sae.noisy_encoders[m[2]].tied_coder}
    [] m[1] = "decoder" ->
         IF sae.decoders[m[2]].tied_coder = NoCoder
         THEN {m}
         ELSE {m, sae.decoders[m[2]].tied_coder}
    [] m[1] = "outputer" -> {m}
    [] OTHER -> {}

ParamsOf(t) == UNION { ParamsOfModule(m) : m \in LeafModules(t) }

AllMesd == { MesdM(i) : i \in Layers(sae) }

----------------------------------------------------------------------------
(* fpropbprop: the backward calls of one example, in order *)

Call(m, input, grad) == [m |-> m, input |-> input, grad |-> grad]

DataInputs == <<"data->inputs", NoCoder>>

OutputsOf(m) == <<"outputs", m>>

BetaOf(m) == <<"beta", m>>

CriterionBeta == <<"beta", <<"criterion", 0>>>>

SupCriterionBeta == <<"beta", <<"sup_criterion", 0>>>>

LayerwiseBackwardTarget_mesd(layer) == MesdM(layer)

\* line 256: only the autoencoder of the layer is given a backward call
LayerwiseBackwardTarget(layer) == AE(layer)

\* line 270: the loop runs while i > n_hidden_layers - topKlayers
TopKLoopBound(n, k) == n - k

\* lines 271-276, one encoder's backward call
TopKEncoderCall(i) ==
  LET n == sae.n_hidden_layers
  IN IF i = n - 1
     THEN Call(Enc(i), OutputsOf(Enc(i - 1)), BetaOf(Outputer))
     ELSE IF i = 0
          THEN Call(Enc(i), DataInputs, BetaOf(Enc(i + 1)))
          ELSE Call(Enc(i), OutputsOf(Enc(i - 1)), BetaOf(Enc(i + 1)))

RECURSIVE TopKEncoderCalls(_, _)
TopKEncoderCalls(i, bound) ==
  IF i > bound
  THEN <<TopKEncoderCall(i)>> \o TopKEncoderCalls(i - 1, bound)
  ELSE <<>>

TopKCalls ==
  <<Call(Outputer, OutputsOf(Enc(sae.n_hidden_layers - 1)), CriterionBeta)>>
  \o TopKEncoderCalls(sae.n_hidden_layers - 1,
                      TopKLoopBound(sae.n_hidden_layers, topKlayers))

\* one step of an example: a backward call on m, ClearDerivatives(m), or a
\* copyTo of m's beta into a saved gradient
Step(op, m, input, grad, to) ==
  [op |-> op, m |-> m, input |-> input, grad |-> grad, to |-> to]

\* the module whose beta is the gradient arriving at hidden layer i from above
UpperModule(i) == IF i < sae.n_hidden_layers - 1 THEN Enc(i + 1) ELSE Outputer

\* lines 780-788
SupSnapshots ==
  [k \in 1 .. sae.n_hidden_layers |->
     Step("copyTo", UpperModule(k - 1), <<>>, <<>>, <<"sup_saved_grads", k - 1>>)]

\* lines 796-813: per layer, the upper snapshot and then the decoder's
UpperAndUnsupSnapshots ==
  [k \in 1 .. 2 * sae.n_hidden_layers |->
     IF k % 2 = 1
     THEN Step("copyTo", UpperModule((k - 1) \div 2), <<>>, <<>>,
               <<"upper_saved_grads", (k - 1) \div 2>>)
     ELSE Step("copyTo", Dec((k - 1) \div 2), <<>>, <<>>,
               <<"unsup_saved_grads", (k - 1) \div 2>>)]

ProfileLocalGradMeasureExample_no_clear ==
  <<Step("backward", SaeM, DataInputs, SupCriterionBeta, <<>>)>>
  \o SupSnapshots
  \o <<Step("backward", machine, DataInputs, CriterionBeta, <<>>)>>
  \o UpperAndUnsupSnapshots

\* ProfileLocalGradMeasureExample: backward of sae from the supervised
\* criterion, the supervised snapshots, ClearDerivatives(sae), backward of
\* the active machine, the upper and decoder snapshots (the measurers only
\* read)
ProfileLocalGradMeasureExample ==
  <<Step("backward", SaeM, DataInputs, SupCriterionBeta, <<>>)>>
  \o SupSnapshots
  \o <<Step("ClearDerivatives", SaeM, <<>>, <<>>, <<>>)>>
  \o <<Step("backward", machine, DataInputs, CriterionBeta, <<>>)>>
  \o UpperAndUnsupSnapshots

\* the backward calls of ProfileLocalGradMeasureExample
ProfileCalls ==
  LET b == SelectSeq(ProfileLocalGradMeasureExample, LAMBDA s : s.op = "backward")
  IN [k \in 1 .. Len(b) |-> Call(b[k].m, b[k].input, b[k].grad)]

fpropbprop ==
  IF ~profile_gradients /\ ~layerwise_training /\ ~topK_training
  THEN <<Call(machine, DataInputs, CriterionBeta)>>
  ELSE IF layerwise_training
       THEN <<Call(LayerwiseBackwardTarget(layerwise_layer), DataInputs, CriterionBeta)>>
       ELSE IF topK_training
            THEN TopKCalls
            ELSE ProfileCalls

\* a call that reads encoders[] outside [0, n_hidden_layers)
ReadsOutOfRange(c) ==
  \/ (c.input[1] = "outputs" /\ c.input[2][1] = "encoder"
        /\ c.input[2][2] \notin Layers(sae))
  \/ (c.grad[2][1] = "encoder" /\ c.grad[2][2] \notin Layers(sae))

SeqRange(q) == { q[k] : k \in 1 .. Len(q) }

\* parameter groups whose gradient buffer was written since the
\* ClearDerivatives(machine) that opens the example; in profiling mode the
\* supervised pass over sae is wiped by ClearDerivatives(sae) (line 791)
GradientAfterExample(calls) ==
  IF profile_gradients /\ ~layerwise_training /\ ~topK_training
  THEN ParamsOf(machine)
  ELSE UNION { ParamsOf(c.m) : c \in SeqRange(calls) }

----------------------------------------------------------------------------
(* Gradient buffers: what an example leaves in der_params, beta and the
   saved gradients *)

AllCoders ==
  { Enc(i) : i \in Layers(sae) } \cup { NEnc(i) : i \in DOMAIN sae.noisy_encoders }
  \cup { Dec(i) : i \in Layers(sae) } \cup {Outputer}

AllParams == UNION { ParamsOfModule(m) : m \in AllCoders }

\* a gradient: the loss it derives from and the graph it was propagated through
Grad(loss, through) == [loss |-> loss, through |-> through]

Stale == Grad("stale", NoCoder)

\* fpropbprop runs criterion->backward only: sup_criterion->beta is of this
\* example only if the active criterion is, or contains, the supervised one
SupCriterionComputed ==
  \/ criterion = SupCriterion
  \/ \E k \in 1 .. Len(criterion.criterions) : criterion.criterions[k] = SupCriterion

\* what the buffer handed to a backward call holds
GradSource(st, grad, through) ==
  IF grad = CriterionBeta THEN Grad("criterion", through)
  ELSE IF grad = SupCriterionBeta
       THEN (IF SupCriterionComputed THEN Grad("sup_criterion", through) ELSE Stale)
       ELSE IF grad[2] \in AllCoders THEN st.beta[grad[2]] ELSE Stale

\* the profiling branch of fpropbprop, lines 279-286
ProfilingBranch == profile_gradients /\ ~layerwise_training /\ ~topK_training

\* the buffers when train() starts an example, before its ClearDerivatives
BeforeExample ==
  [gradients |-> [p \in AllParams |-> <<Stale>>],
   beta |-> [x \in AllCoders |-> Stale],
   saved_grads |-> saved_grads]

\* train() clears the derivatives of the active machine, then fpropbprop
ExampleSteps(calls) ==
  <<Step("ClearDerivatives", machine, <<>>, <<>>, <<>>)>>
  \o (IF ProfilingBranch
      THEN ProfileLocalGradMeasureExample
      ELSE [k \in 1 .. Len(calls) |->
              Step("backward", calls[k].m, calls[k].input, calls[k].grad, <<>>)])

\* backward accumulates into der_params and overwrites beta of every Coder it
\* reaches; ClearDerivatives zeroes der_params; copyTo overwrites its target
RunStep(st, s) ==
  CASE s.op = "backward" ->
         LET g == GradSource(st, s.grad, s.m)
         IN [st EXCEPT
               !.gradients = [p \in AllParams |->
                                IF p \in ParamsOf(s.m)
                                THEN Append(st.gradients[p], g) ELSE st.gradients[p]],
               !.beta = [x \in AllCoders |->
                           IF x \in LeafModules(s.m) THEN g ELSE st.beta[x]]]
    [] s.op = "ClearDerivatives" ->
         [st EXCEPT !.gradients = [p \in AllParams |->
                                     IF p \in ParamsOf(s.m) THEN <<>> ELSE st.gradients[p]]]
    [] s.op = "copyTo" ->
         [st EXCEPT !.saved_grads =
            [t \in DOMAIN st.saved_grads \cup {s.to} |->
               IF t = s.to THEN st.beta[s.m] ELSE st.saved_grads[t]]]

RECURSIVE RunSteps(_, _)
RunSteps(steps, st) ==
  IF steps = <<>> THEN st ELSE RunSteps(Tail(steps), RunStep(st, Head(steps)))

----------------------------------------------------------------------------
(* UpdateMachine *)

Update(gm, lr) == [gm |-> gm, lr |-> lr]

CurrentLR == <<"current_learning_rate", 0>>

FineLR(r) == <<"finetuning_learning_rate", r>>

FinetuneRateApplies_nonneg(r) == r >= 0

\* lines 299 and 302
FinetuneRateApplies(r) == r > 0

RECURSIVE FinetuneEncoderUpdates(_)
FinetuneEncoderUpdates(i) ==
  IF i < sae.n_hidden_layers
  THEN (IF FinetuneRateApplies(finetuning_learning_rates[i])
        THEN <<Update(Enc(i), FineLR(finetuning_learning_rates[i]))>>
        ELSE <<>>) \o FinetuneEncoderUpdates(i + 1)
  ELSE <<>>

FinetuneUpdates ==
  FinetuneEncoderUpdates(0) \o
  (IF FinetuneRateApplies(finetuning_learning_rates[sae.n_hidden_layers])
   THEN <<Update(Outputer, FineLR(finetuning_learning_rates[sae.n_hidden_layers]))>>
   ELSE <<>>)

UpdateMachine(gm) ==
  IF ~is_finetuning THEN <<Update(gm, CurrentLR)>> ELSE FinetuneUpdates

\* parameter groups an update sequence modifies: those of its targets whose
\* gradient buffer was written in this example, and any group outside the
\* active machine (its buffer was not cleared, so it may hold an old gradient)
ChangedBy(updates, written) ==
  UNION { (ParamsOf(u.gm) \cap written) \cup (ParamsOf(u.gm) \ ParamsOf(machine))
          : u \in SeqRange(updates) }

----------------------------------------------------------------------------
(* TrainSelectiveUnsup: the selective machine, flags and criterion *)

Selected(list) == { i \in DOMAIN list : list[i] = 1 }

\* lines 347-354
TopmostTrained(list) ==
  IF Selected(list) = {}
  THEN -1
  ELSE CHOOSE i \in Selected(list) : \A j \in Selected(list) : j <= i

NLayersToTrain(list) == Cardinality(Selected(list))

SelectiveUpTo_all(s, index_topmost_trained) == s.n_hidden_layers - 1

SelectiveUpTo_topmost(s, index_topmost_trained) == index_topmost_trained

\* lines 362-370: the index handed to AddEncodersUpToIncluded
SelectiveUpTo(s, index_topmost_trained) ==
  IF ~s.is_noisy THEN index_topmost_trained ELSE index_topmost_trained - 1

SelectiveAddsInputHandle_never(s, list) == FALSE

\* lines 362-370: is the input_handle_machine asked for?
SelectiveAddsInputHandle(s, list) == s.is_noisy /\ list[0] = 1

\* lines 387-412: the reconstruction branch of one selected layer
SelectiveBranch(s, mch, i) ==
  IF ~s.is_noisy
  THEN connectOn(addMachine(mch, Dec(i)), Enc(i))
  ELSE IF i > 0
       THEN connectOn(addMachine(mch, AE(i)), Enc(i - 1))
       ELSE connectOn(addMachine(mch, AE(i)), InputHandle)

RECURSIVE SelectiveBranchesFrom(_, _, _, _)
SelectiveBranchesFrom(s, mch, list, i) ==
  IF i < s.n_hidden_layers
  THEN SelectiveBranchesFrom(s,
         IF list[i] = 1 THEN SelectiveBranch(s, mch, i) ELSE mch, list, i + 1)
  ELSE mch

BuildSelectiveMachine_build_early(s, list) ==
  SelectiveBranchesFrom(s,
    build(AddEncodersUpToIncluded(NewConnectedMachine,
                                  SelectiveUpTo(s, TopmostTrained(list)),
                                  SelectiveAddsInputHandle(s, list))),
    list, 0)

\* lines 359-416
BuildSelectiveMachine(s, list) ==
  build(SelectiveBranchesFrom(s,
          AddEncodersUpToIncluded(NewConnectedMachine,
                                  SelectiveUpTo(s, TopmostTrained(list)),
                                  SelectiveAddsInputHandle(s, list)),
          list, 0))

SelectiveSetPartial_global(s, flags, list, pb) ==
  [m \in DOMAIN flags |->
     IF m[1] \in {"encoder", "autoencoder"} THEN pb ELSE flags[m]]

\* lines 378 and 395: the flags while the selective phase trains
SelectiveSetPartial(s, flags, list, pb) ==
  [m \in DOMAIN flags |->
     IF m[1] = "encoder"
     THEN pb
     ELSE IF m[1] = "autoencoder" /\ s.is_noisy /\ list[m[2]] = 1
          THEN pb
          ELSE flags[m]]

SelectiveClearPartial_encoders_only(s, flags) ==
  [m \in DOMAIN flags |-> IF m[1] = "encoder" THEN FALSE ELSE flags[m]]

\* lines 465-469
SelectiveClearPartial(s, flags) ==
  [m \in DOMAIN flags |->
     IF m[1] = "encoder"
     THEN FALSE
     ELSE IF m[1] = "autoencoder" /\ s.is_noisy THEN FALSE ELSE flags[m]]

RECURSIVE SelectedCriterionsFrom(_, _, _)
SelectedCriterionsFrom(s, list, i) ==
  IF i < s.n_hidden_layers
  THEN (IF list[i] = 1 THEN <<UnsupCriterion(i)>> ELSE <<>>)
       \o SelectedCriterionsFrom(s, list, i + 1)
  ELSE <<>>

SelectiveCriterion_topmost_first(s, list) ==
  LET c == SelectedCriterionsFrom(s, list, 0)
  IN ConcatCriterion(NLayersToTrain(list),
                     [k \in 1 .. Len(c) |-> c[Len(c) + 1 - k]], "NULL")

\* lines 423-441
SelectiveCriterion(s, list) ==
  ConcatCriterion(NLayersToTrain(list), SelectedCriterionsFrom(s, list, 0), "NULL")

----------------------------------------------------------------------------
(* TrainUnsupNotOutput / TrainSupUnsup: criteria and weights *)

AllUnsupCriterions(s) == [k \in 1 .. s.n_hidden_layers |-> UnsupCriterion(k - 1)]

UnsupNotOutputCriterion_with_sup(s) ==
  ConcatCriterion(1 + s.n_hidden_layers, <<SupCriterion>> \o AllUnsupCriterions(s),
                  "criterions_weights")

\* lines 540-560
UnsupNotOutputCriterion(s) ==
  ConcatCriterion(s.n_hidden_layers, AllUnsupCriterions(s), "criterions_weights+1")

\* lines 549-552
UnsupNotOutputWeights(s, weights) ==
  [i \in DOMAIN weights |-> IF i >= 1 THEN W(1) ELSE weights[i]]

SupUnsupCriterions_sup_last(s, active) == AllUnsupCriterions(s) \o <<active>>

\* lines 621-631: the active criterion first, then every unsup criterion
SupUnsupCriterions(s, active) == <<active>> \o AllUnsupCriterions(s)

\* lines 640-644
SupUnsupCriterion(s, active) ==
  ConcatCriterion(1 + s.n_hidden_layers, SupUnsupCriterions(s, active),
                  "criterions_weights")

\* lines 634-637
SupUnsupWeights(s, the_unsup_criterions_weight) ==
  [i \in 0 .. s.n_hidden_layers |->
     IF i = 0 THEN W(1) ELSE the_unsup_criterions_weight]

\* weight the concatenated criterion c applies to its k-th term (k from 0);
\* without a weight array every term counts 1.0
TermWeight(c, k) ==
  CASE c.weights = "criterions_weights" -> criterions_weights[k]
    [] c.weights = "criterions_weights+1" -> criterions_weights[k + 1]
    [] OTHER -> W(1)

TermWeights(c) == [k \in 1 .. c.n_criterions |-> TermWeight(c, k - 1)]

\* lines 504-505
TrainUnsupLayerRestore == [machine |-> SaeM, criterion |-> SupCriterion]

\* lines 471-472
TrainSelectiveUnsupRestore == [machine |-> SaeM, criterion |-> SupCriterion]

\* lines 580-581
TrainUnsupNotOutputRestore == [machine |-> SaeM, criterion |-> SupCriterion]

TrainSupUnsupRestore_criterion_only == [machine |-> SupUnsupM, criterion |-> SupCriterion]

\* lines 676-677
TrainSupUnsupRestore == [machine |-> SaeM, criterion |-> SupCriterion]

ReestimatedWeights_sup_raw(s) ==
  [i \in 0 .. s.n_hidden_layers |-> Hess(i - 1)]

\* IterInitialize, lines 211-222: the weights after the re-estimation
ReestimatedWeights(s) ==
  [i \in 0 .. s.n_hidden_layers |-> IF i = 0 THEN W(1) ELSE Hess(i - 1)]

----------------------------------------------------------------------------
(* Spec: the trainer over a constructed topology *)

Rates == {-1, 0, 1}

CallerWeights == {W(2)}

PretrainLists(s) == [Layers(s) -> {0, 1}]

\* units as the main program passes them: one width for every hidden layer
MainUnits(n) == [k \in 0 .. n + 1 |-> IF k = 0 THEN MaxWidth ELSE 1]

Init ==
  /\ \E n \in 1 .. MaxLayers, tied \in BOOLEAN, noisy \in BOOLEAN :
        sae = StackedAutoencoder(n, MainUnits(n), tied, noisy)
  /\ ctor_pc = "constructed"
  \* ProfileGradientsInitialize is fatal on a noisy topology
  /\ profile_gradients \in (IF sae.is_noisy THEN {FALSE} ELSE BOOLEAN)
  /\ \E e \in BOOLEAN : TrainerConstructed(sae, e)
  /\ main = MainNotRun

\* a phase is started only while the epoch counter is below its cap
CanCall == pc = "idle" /\ epoch < MaxEpoch

\* bookkeeping of a phase call that reaches train()
BeginPhase(ph) ==
  /\ phase' = ph
  /\ changed' = {}
  /\ bwd_seen' = {}
  /\ bwd_calls' = <<>>
  /\ upd_calls' = <<>>
  /\ gradients' = <<>>
  /\ saved_grads' = <<>>

ReturnedPhase(ph) == PhaseRec(ph.name, <<>>, ph.partial_backprop, 0, W(0))

EndPhase ==
  /\ phase' = ReturnedPhase(phase)
  /\ changed' = {}
  /\ bwd_seen' = {}
  /\ bwd_calls' = <<>>
  /\ upd_calls' = <<>>
  /\ gradients' = <<>>
  /\ saved_grads' = <<>>

\* first layer >= from that the list selects, n_hidden_layers if none
NextSelected(list, from) ==
  IF \E i \in Selected(list) : i >= from
  THEN CHOOSE i \in Selected(list) :
         i >= from /\ \A j \in Selected(list) : j >= from => i <= j
  ELSE sae.n_hidden_layers

\* TrainUnsupLayerwise / TrainSelectiveUnsupLayerwise up to the first train()
LayerwiseCall(name, list) ==
  LET first == NextSelected(list, 0)
  IN /\ CanCall
     /\ BeginPhase(IF first < sae.n_hidden_layers
                   THEN PhaseRec(name, list, FALSE, 0, W(0))
                   ELSE ReturnedPhase(PhaseRec(name, list, FALSE, 0, W(0))))
     /\ IF first < sae.n_hidden_layers
        THEN /\ layerwise_training' = TRUE
             /\ layerwise_layer' = first
             /\ machine' = MesdM(first)
             /\ criterion' = UnsupCriterion(first)
             /\ pc' = "iter_init"
        ELSE /\ layerwise_training' = FALSE
             /\ pc' = "idle"
             /\ UNCHANGED <<layerwise_layer, machine, criterion>>
     /\ UNCHANGED <<main, sae, ctor_pc, topK_training, topKlayers, is_finetuning,
                    profile_gradients, do_eval_criterion_weights, epoch,
                    criterions_weights, finetuning_learning_rates, sup_dataset,
                    selective_machine, partial_backprop>>

TrainUnsupLayerwise ==
  LayerwiseCall("TrainUnsupLayerwise", [i \in Layers(sae) |-> 1])

TrainSelectiveUnsupLayerwise ==
  \E list \in PretrainLists(sae) :
     LayerwiseCall("TrainSelectiveUnsupLayerwise", list)

\* TrainUnsupLayer returns: restore, then the next layer or the end of the phase
TrainUnsupLayerReturn ==
  LET next == NextSelected(phase.pretrain_list, layerwise_layer + 1)
  IN /\ pc = "train_done"
     /\ phase.name \in {"TrainUnsupLayerwise", "TrainSelectiveUnsupLayerwise"}
     /\ IF next < sae.n_hidden_layers
        THEN /\ layerwise_layer' = next
             /\ machine' = MesdM(next)
             /\ criterion' = UnsupCriterion(next)
             /\ pc' = "iter_init"
             \* what was observed is kept per TrainUnsupLayer call
             /\ changed' = {}
             /\ bwd_seen' = {}
             /\ bwd_calls' = <<>>
             /\ upd_calls' = <<>>
             /\ gradients' = <<>>
             /\ saved_grads' = <<>>
             /\ UNCHANGED <<layerwise_training, phase>>
        ELSE /\ machine' = TrainUnsupLayerRestore.machine
             /\ criterion' = TrainUnsupLayerRestore.criterion
             /\ layerwise_training' = FALSE
             /\ pc' = "idle"
             /\ EndPhase
             /\ UNCHANGED layerwise_layer
     /\ UNCHANGED <<main, sae, ctor_pc, topK_training, topKlayers, is_finetuning,
                    profile_gradients, do_eval_criterion_weights, epoch,
                    criterions_weights, finetuning_learning_rates, sup_dataset,
                    selective_machine, partial_backprop>>

\* TrainSelectiveUnsup up to train(); building an empty ConnectedMachine
\* (no layer selected) is outside the library's contract: it faults or goes on
TrainSelectiveUnsup ==
  \E list \in PretrainLists(sae), pb \in BOOLEAN :
    LET g == BuildSelectiveMachine(sae, list)
    IN /\ CanCall
       /\ BeginPhase(PhaseRec("TrainSelectiveUnsup", list, pb, 0, W(0)))
       /\ selective_machine' = g
       /\ partial_backprop' = SelectiveSetPartial(sae, partial_backprop, list, pb)
       /\ \E outcome \in (IF ModuleSet(g) = {} \/ g.err
                          THEN {"fault", "train"} ELSE {"train"}) :
            IF outcome = "fault"
            THEN /\ pc' = "aborted"
                 /\ UNCHANGED <<machine, criterion>>
            ELSE /\ machine' = SelectiveM
                 /\ criterion' = SelectiveCriterion(sae, list)
                 /\ pc' = "iter_init"
       /\ UNCHANGED <<main, sae, ctor_pc, layerwise_training, layerwise_layer,
                      topK_training, topKlayers, is_finetuning, profile_gradients,
                      do_eval_criterion_weights, epoch, criterions_weights,
                      finetuning_learning_rates, sup_dataset>>

TrainSelectiveUnsupReturn ==
  /\ pc = "train_done"
  /\ phase.name = "TrainSelectiveUnsup"
  /\ partial_backprop' = SelectiveClearPartial(sae, partial_backprop)
  /\ machine' = TrainSelectiveUnsupRestore.machine
  /\ criterion' = TrainSelectiveUnsupRestore.criterion
  /\ selective_machine' = NewConnectedMachine
  /\ pc' = "idle"
  /\ EndPhase
  /\ UNCHANGED <<main, sae, ctor_pc, layerwise_training, layerwise_layer,
                 topK_training, topKlayers, is_finetuning, profile_gradients,
                 do_eval_criterion_weights, epoch, criterions_weights,
                 finetuning_learning_rates, sup_dataset>>

TrainUnsupNotOutput ==
  /\ CanCall
  /\ BeginPhase(PhaseRec("TrainUnsupNotOutput", <<>>, FALSE, 0, W(0)))
  /\ criterions_weights' = UnsupNotOutputWeights(sae, criterions_weights)
  /\ machine' = UnsupM
  /\ criterion' = UnsupNotOutputCriterion(sae)
  /\ pc' = "iter_init"
  /\ UNCHANGED <<main, sae, ctor_pc, layerwise_training, layerwise_layer,
                 topK_training, topKlayers, is_finetuning, profile_gradients,
                 do_eval_criterion_weights, epoch, finetuning_learning_rates,
                 sup_dataset, selective_machine, partial_backprop>>

TrainUnsupNotOutputReturn ==
  /\ pc = "train_done"
  /\ phase.name = "TrainUnsupNotOutput"
  /\ machine' = TrainUnsupNotOutputRestore.machine
  /\ criterion' = TrainUnsupNotOutputRestore.criterion
  /\ pc' = "idle"
  /\ EndPhase
  /\ UNCHANGED <<main, sae, ctor_pc, layerwise_training, layerwise_layer,
                 topK_training, topKlayers, is_finetuning, profile_gradients,
                 do_eval_criterion_weights, epoch, criterions_weights,
                 finetuning_learning_rates, sup_dataset, selective_machine,
                 partial_backprop>>

\* TrainSupUnsup up to train(), lines 618-671
SupUnsupSetup(the_unsup_criterions_weight) ==
  /\ sup_dataset' = "supervised_train_data"
  /\ criterions_weights' = SupUnsupWeights(sae, the_unsup_criterions_weight)
  /\ criterion' = SupUnsupCriterion(sae, criterion)
  /\ machine' = SupUnsupM
  /\ pc' = "iter_init"
  /\ UNCHANGED <<main, sae, ctor_pc, layerwise_training, layerwise_layer,
                 topK_training, topKlayers, is_finetuning, profile_gradients,
                 do_eval_criterion_weights, epoch, finetuning_learning_rates,
                 selective_machine>>

TrainSupUnsup ==
  \E w \in CallerWeights :
    /\ CanCall
    /\ BeginPhase(PhaseRec("TrainSupUnsup", <<>>, FALSE, 0, w))
    /\ SupUnsupSetup(w)
    /\ UNCHANGED partial_backprop

\* line 598
TrainUnsupSetPartial(flags) == [flags EXCEPT ![Outputer] = TRUE]

TrainUnsupRestorePartial_kept(flags) == flags

\* line 606
TrainUnsupRestorePartial(flags) == [flags EXCEPT ![Outputer] = FALSE]

\* TrainUnsup, lines 598-603: the outputer does partial backprop, then
\* TrainSupUnsup with weight 1.0
TrainUnsup ==
  /\ CanCall
  /\ BeginPhase(PhaseRec("TrainUnsup", <<>>, FALSE, 0, W(1)))
  /\ partial_backprop' = TrainUnsupSetPartial(partial_backprop)
  /\ SupUnsupSetup(W(1))

\* TrainSupUnsup returns; under TrainUnsup the outputer is then restored
TrainSupUnsupReturn ==
  /\ pc = "train_done"
  /\ phase.name \in {"TrainSupUnsup", "TrainUnsup"}
  /\ machine' = TrainSupUnsupRestore.machine
  /\ criterion' = TrainSupUnsupRestore.criterion
  /\ partial_backprop' = IF phase.name = "TrainUnsup"
                         THEN TrainUnsupRestorePartial(partial_backprop)
                         ELSE partial_backprop
  /\ pc' = "idle"
  /\ EndPhase
  /\ UNCHANGED <<main, sae, ctor_pc, layerwise_training, layerwise_layer,
                 topK_training, topKlayers, is_finetuning, profile_gradients,
                 do_eval_criterion_weights, epoch, criterions_weights,
                 finetuning_learning_rates, sup_dataset, selective_machine>>

\* TrainSupervisedTopKLayers up to train(); the assert of line 518 is fatal
TrainSupervisedTopKLayers ==
  \E top_k_layers \in 0 .. sae.n_hidden_layers + 2 :
    /\ CanCall
    /\ BeginPhase(PhaseRec("TrainSupervisedTopKLayers", <<>>, FALSE, top_k_layers, W(0)))
    /\ IF top_k_layers > 0 /\ top_k_layers <= sae.n_hidden_layers + 1
       THEN /\ topK_training' = TRUE
            /\ topKlayers' = top_k_layers
            /\ machine' = SaeM
            /\ criterion' = SupCriterion
            /\ pc' = "iter_init"
       ELSE /\ pc' = "aborted"
            /\ UNCHANGED <<topK_training, topKlayers, machine, criterion>>
    /\ UNCHANGED <<main, sae, ctor_pc, layerwise_training, layerwise_layer,
                   is_finetuning, profile_gradients, do_eval_criterion_weights,
                   epoch, criterions_weights, finetuning_learning_rates,
                   sup_dataset, selective_machine, partial_backprop>>

TrainSupervisedTopKLayersReturn ==
  /\ pc = "train_done"
  /\ phase.name = "TrainSupervisedTopKLayers"
  /\ topK_training' = FALSE
  /\ pc' = "idle"
  /\ EndPhase
  /\ UNCHANGED <<main, sae, ctor_pc, machine, criterion, layerwise_training,
                 layerwise_layer, topKlayers, is_finetuning, profile_gradients,
                 do_eval_criterion_weights, epoch, criterions_weights,
                 finetuning_learning_rates, sup_dataset, selective_machine,
                 partial_backprop>>

\* the supervised phase of the main program: profiling is switched off, the
\* layer-specific rates are installed if asked for, then train(); the rates
\* that switch a layer off in one run are the same value (zero or negative)
MainSupervised ==
  \E layer_specific \in BOOLEAN :
    \E rates \in (IF ~CanCall THEN {}
                  ELSE IF layer_specific
                  THEN UNION {[0 .. sae.n_hidden_layers -> {off, 1}] :
                                off \in Rates \ {1}}
                  ELSE {finetuning_learning_rates}) :
      /\ CanCall
      /\ BeginPhase(PhaseRec("train", <<>>, FALSE, 0, W(0)))
      /\ profile_gradients' = FALSE
      /\ is_finetuning' = (is_finetuning \/ layer_specific)
      /\ finetuning_learning_rates' = rates
      /\ pc' = "iter_init"
      /\ UNCHANGED <<main, sae, ctor_pc, machine, criterion, layerwise_training,
                     layerwise_layer, topK_training, topKlayers,
                     do_eval_criterion_weights, epoch, criterions_weights,
                     sup_dataset, selective_machine, partial_backprop>>

\* the supervised phase is the last one the main program runs
MainSupervisedReturn ==
  /\ pc = "train_done"
  /\ phase.name = "train"
  /\ pc' = "done"
  /\ EndPhase
  /\ UNCHANGED <<main, sae, ctor_pc, machine, criterion, layerwise_training,
                 layerwise_layer, topK_training, topKlayers, is_finetuning,
                 profile_gradients, do_eval_criterion_weights, epoch,
                 criterions_weights, finetuning_learning_rates, sup_dataset,
                 selective_machine, partial_backprop>>

----------------------------------------------------------------------------
(* train(): IterInitialize, the examples, IterFinalize *)

\* IterInitialize: with do_eval_criterion_weights and epoch > 0, EvalHessian
\* runs the supervised graph on sup_dataset and every mesd machine on its
\* dataset (forward and backward, no update) and the weights are re-estimated.
\* Reading sup_dataset before TrainSupUnsup assigned it is a read of an
\* uninitialized pointer: the run faults or goes on with what it found.
IterInitialize ==
  /\ pc = "iter_init"
  /\ IF do_eval_criterion_weights /\ epoch > 0
     THEN \E outcome \in (IF sup_dataset = "uninit"
                          THEN {"fault", "garbage"} ELSE {"ok"}) :
            IF outcome = "fault"
            THEN /\ pc' = "aborted"
                 /\ UNCHANGED <<criterions_weights, bwd_seen, gradients>>
            ELSE /\ criterions_weights' = ReestimatedWeights(sae)
                 \* EvalHessian clears and refills the gradient buffers
                 /\ gradients' = <<>>
                 /\ bwd_seen' = bwd_seen \cup LeafModules(SaeM)
                                    \cup UNION { LeafModules(m) : m \in AllMesd }
                 /\ pc' = "example"
     ELSE /\ pc' = "example"
          /\ UNCHANGED <<criterions_weights, bwd_seen, gradients>>
  /\ UNCHANGED <<main, sae, ctor_pc, machine, criterion, layerwise_training,
                 layerwise_layer, topK_training, topKlayers, is_finetuning,
                 profile_gradients, do_eval_criterion_weights, epoch,
                 finetuning_learning_rates, sup_dataset, selective_machine,
                 partial_backprop, changed, bwd_calls, upd_calls, saved_grads,
                 phase>>

\* calls made before the first one that reads encoders[] out of range
RECURSIVE CallsBeforeFault(_)
CallsBeforeFault(calls) ==
  IF calls = <<>> \/ ReadsOutOfRange(Head(calls))
  THEN <<>>
  ELSE <<Head(calls)>> \o CallsBeforeFault(Tail(calls))

\* one example: ClearDerivatives(machine), fpropbprop(data),
\* UpdateMachine(machine, current_learning_rate)
Example ==
  /\ pc = "example"
  /\ LET calls == fpropbprop
         written == GradientAfterExample(calls)
         updates == UpdateMachine(machine)
         after == RunSteps(ExampleSteps(calls), BeforeExample)
     IN \E outcome \in
           (IF \E c \in SeqRange(calls) : ReadsOutOfRange(c)
            THEN {"fault", "garbage"}
            ELSE IF is_finetuning /\ machine # SaeM
                 THEN {"assert"}
                 ELSE {"ok"}) :
          CASE outcome = "fault" ->
                 /\ bwd_calls' = CallsBeforeFault(calls)
                 /\ pc' = "aborted"
                 /\ UNCHANGED <<upd_calls, changed, bwd_seen, gradients, saved_grads>>
            [] outcome = "assert" ->
                 /\ bwd_calls' = calls
                 /\ bwd_seen' = bwd_seen \cup UNION { LeafModules(c.m) : c \in SeqRange(calls) }
                 /\ gradients' = after.gradients
                 /\ saved_grads' = after.saved_grads
                 /\ pc' = "aborted"
                 /\ UNCHANGED <<upd_calls, changed>>
            [] OTHER ->
                 /\ bwd_calls' = calls
                 /\ bwd_seen' = bwd_seen \cup UNION { LeafModules(c.m) : c \in SeqRange(calls) }
                 /\ upd_calls' = updates
                 /\ changed' = changed \cup ChangedBy(updates, written)
                 /\ gradients' = after.gradients
                 /\ saved_grads' = after.saved_grads
                 /\ \E nxt \in {"example", "iter_final"} : pc' = nxt
  /\ UNCHANGED <<main, sae, ctor_pc, machine, criterion, layerwise_training,
                 layerwise_layer, topK_training, topKlayers, is_finetuning,
                 profile_gradients, do_eval_criterion_weights, epoch,
                 criterions_weights, finetuning_learning_rates, sup_dataset,
                 selective_machine, partial_backprop, phase>>

\* IterFinalize and the end-of-iteration test of train(): stop on convergence
\* or at the iteration cap (here: the epoch bound)
IterFinalize ==
  /\ pc = "iter_final"
  /\ epoch' = epoch + 1
  /\ \E nxt \in (IF epoch + 1 < MaxEpoch
                 THEN {"iter_init", "train_done"} ELSE {"train_done"}) : pc' = nxt
  /\ UNCHANGED <<main, sae, ctor_pc, machine, criterion, layerwise_training,
                 layerwise_layer, topK_training, topKlayers, is_finetuning,
                 profile_gradients, do_eval_criterion_weights,
                 criterions_weights, finetuning_learning_rates, sup_dataset,
                 selective_machine, partial_backprop, changed,
                 bwd_seen, bwd_calls, upd_calls, gradients, saved_grads, phase>>

Next ==
  \/ TrainUnsupLayerwise
  \/ TrainSelectiveUnsupLayerwise
  \/ TrainUnsupLayerReturn
  \/ TrainSelectiveUnsup
  \/ TrainSelectiveUnsupReturn
  \/ TrainUnsupNotOutput
  \/ TrainUnsupNotOutputReturn
  \/ TrainSupUnsup
  \/ TrainUnsup
  \/ TrainSupUnsupReturn
  \/ TrainSupervisedTopKLayers
  \/ TrainSupervisedTopKLayersReturn
  \/ MainSupervised
  \/ MainSupervisedReturn
  \/ IterInitialize
  \/ Example
  \/ IterFinalize

Spec == Init /\ [][Next]_vars

----------------------------------------------------------------------------
(* SpecMain: one run of the main program; a trainer call is one step here,
   its course is what Spec describes *)

InitMain ==
  /\ \E f \in MainFlags : main = [pc |-> "check_configuration", flags |-> f, log |-> <<>>]
  /\ sae = StackedAutoencoderFields(1, MainUnits(1), FALSE, FALSE)
  /\ ctor_pc = "BuildCoders"
  /\ profile_gradients = FALSE
  /\ TrainerConstructed(sae, FALSE)

MainDid(step, events) ==
  main' = [main EXCEPT !.pc = MainNextStep(step), !.log = main.log \o events]

\* lines 232-247: error() ends the run
MainCheckConfiguration ==
  /\ main.pc = "check_configuration"
  /\ IF ConfigurationIsFatal(main.flags)
     THEN main' = [main EXCEPT !.pc = "aborted"]
     ELSE MainDid("check_configuration", <<>>)
  /\ UNCHANGED <<sae, ctor_pc, trainer_vars>>

\* the datasets, the model and the trainer are created, in this order; with
\* the trainer, ProfileGradientsInitialize is fatal when profiling is asked
\* for on a noisy topology
MainSetUp ==
  /\ main.pc \in {"load_data", "create_model", "create_trainer"}
  /\ \E profiling_noisy \in (IF main.pc = "create_trainer" THEN BOOLEAN ELSE {FALSE}) :
       IF profiling_noisy
       THEN main' = [main EXCEPT !.pc = "aborted",
                                 !.log = main.log \o <<Event("setup", main.pc)>>]
       ELSE MainDid(main.pc, <<Event("setup", main.pc)>>)
  /\ UNCHANGED <<sae, ctor_pc, trainer_vars>>

\* a SaveCSAE block, guarded by its flag
MainSaveCheckpoint ==
  /\ main.pc \in {"save_afterinit", "save_afterpretraining", "save_final"}
  /\ \E flag_save_model \in BOOLEAN :
       MainDid(main.pc, IF flag_save_model
                        THEN <<Event("save", MainCheckpointTag(main.pc))>>
                        ELSE <<>>)
  /\ UNCHANGED <<sae, ctor_pc, trainer_vars>>

\* calls that Spec shows can end the run instead of returning
MainFaultingCalls ==
  {"TrainUnsupLayerwise", "TrainSelectiveUnsup", "TrainUnsupNotOutput", "train"}

\* a training block: the call is made if its iteration cap is nonzero and
\* main goes on when it returns; a block that writes or reads outside its
\* array, or reads an entry nothing wrote, may end the run as well
MainTrainPhase ==
  /\ main.pc \in {"pretrain", "unsup", "supunsup", "supervised"}
  /\ LET call == MainPhaseCall(main.flags, main.pc)
     IN \E outcome \in (IF call = "none" THEN {"skipped"}
                        ELSE IF call \in MainFaultingCalls
                                  \/ ~MainBlockInBounds(main.flags, main.pc)
                             THEN {"returns", "faults"} ELSE {"returns"}) :
          CASE outcome = "skipped" -> MainDid(main.pc, <<>>)
            [] outcome = "returns" -> MainDid(main.pc, <<Event("phase", call)>>)
            [] OTHER -> main' = [main EXCEPT !.pc = "aborted",
                                             !.log = main.log \o <<Event("phase", call)>>]
  /\ UNCHANGED <<sae, ctor_pc, trainer_vars>>

\* lines 499-509: the model is re-initialized from the binners if asked for
MainReinitFromBinners ==
  /\ main.pc = "reinit_from_binners"
  /\ MainDid(main.pc, IF main.flags.init_from_binners
                      THEN <<Event("reinit", "binners")>> ELSE <<>>)
  /\ UNCHANGED <<sae, ctor_pc, trainer_vars>>

\* lines 551-562: the outputs are saved if asked for and main returns
MainSaveOutputs ==
  /\ main.pc = "save_outputs"
  /\ \E flag_save_outputs \in BOOLEAN :
       MainDid(main.pc, IF flag_save_outputs
                        THEN <<Event("save", "outputs")>> ELSE <<>>)
  /\ UNCHANGED <<sae, ctor_pc, trainer_vars>>

NextMain ==
  \/ MainCheckConfiguration
  \/ MainSetUp
  \/ MainSaveCheckpoint
  \/ MainTrainPhase
  \/ MainReinitFromBinners
  \/ MainSaveOutputs

SpecMain == InitMain /\ [][NextMain]_vars

----------------------------------------------------------------------------
(* SpecTools: the procedures that record per-example gradients: EvalHessian,
   EvaluateGradientVarianceInDirection and the main loops of the two
   gradient-covariance tools.  main.flags names the procedure and its
   machine, main.log holds one entry per recorded sample: what der_params
   held at the backward call and what was recorded. *)

\* examples a procedure goes through
MaxSamples == 2

Zeroed == [p \in AllParams |-> <<>>]

Unknown == [p \in AllParams |-> <<Stale>>]

ToolNames ==
  {"EvalHessian", "EvaluateGradientVarianceInDirection",
   "hessian_estimator", "hessian_estimator_block"}

\* der_params when the procedure is entered: whatever the caller, or the
\* allocation of a freshly loaded model, left there
OnEntry(loaded) == IF main.log = <<>> THEN loaded ELSE gradients

\* one example: the steps before the backward call, the backward call, the
\* recording of the sample, the steps after it
ToolExample(gm, start, before_steps, after_steps) ==
  LET st0 == [gradients |-> start, beta |-> [x \in AllCoders |-> Stale],
              saved_grads |-> <<>>]
      st1 == RunSteps(before_steps, st0)
      st2 == RunStep(st1, Step("backward", gm, DataInputs, CriterionBeta, <<>>))
      of_gm(buf) == [p \in ParamsOf(gm) |-> buf[p]]
  IN [entry |-> [tool |-> main.flags.tool, gm |-> gm,
                 at_backward |-> of_gm(st1.gradients),
                 sample |-> of_gm(st2.gradients)],
      left |-> RunSteps(after_steps, st2).gradients]

ToolRecords(r) ==
  /\ main' = [main EXCEPT !.log = Append(@, r.entry)]
  /\ gradients' = r.left
  /\ UNCHANGED <<sae, ctor_pc, machine, criterion, layerwise_training,
                 layerwise_layer, topK_training, topKlayers, is_finetuning,
                 profile_gradients, do_eval_criterion_weights, epoch,
                 criterions_weights, finetuning_learning_rates, sup_dataset,
                 selective_machine, partial_backprop, changed, bwd_seen,
                 bwd_calls, upd_calls, saved_grads, phase, pc>>

ClearStep(gm) == Step("ClearDerivatives", gm, <<>>, <<>>, <<>>)

InitTools ==
  /\ \E n \in 1 .. MaxLayers, tied \in BOOLEAN, noisy \in BOOLEAN :
        sae = StackedAutoencoder(n, MainUnits(n), tied, noisy)
  /\ ctor_pc = "constructed"
  /\ profile_gradients = FALSE
  /\ TrainerConstructed(sae, FALSE)
  /\ \E tool \in ToolNames :
       \E gm \in (IF tool = "EvalHessian" THEN {SaeM} \cup AllMesd ELSE {SaeM}) :
          main = [pc |-> "tool", flags |-> [tool |-> tool, gm |-> gm], log |-> <<>>]

\* EvalHessian, one pass of its loop: ClearDerivatives(the_gm), forward,
\* backward, then the gradient is added to the sums
EvalHessianSample ==
  /\ main.pc = "tool"
  /\ main.flags.tool = "EvalHessian"
  /\ Len(main.log) < MaxSamples
  /\ \E loaded \in {Zeroed, Unknown} :
        ToolRecords(ToolExample(main.flags.gm, OnEntry(loaded),
                                <<ClearStep(main.flags.gm)>>, <<>>))

\* EvaluateGradientVarianceInDirection: ClearDerivatives(machine) on entry;
\* per example forward, backward, copy of the gradient, and each parameter
\* group zeroed after it is copied
EvaluateGradientVarianceInDirection ==
  /\ main.pc = "tool"
  /\ main.flags.tool = "EvaluateGradientVarianceInDirection"
  /\ Len(main.log) < MaxSamples
  /\ \E loaded \in {Zeroed, Unknown} :
        ToolRecords(ToolExample(main.flags.gm, OnEntry(loaded),
                                IF main.log = <<>>
                                THEN <<ClearStep(main.flags.gm)>> ELSE <<>>,
                                <<ClearStep(main.flags.gm)>>))

\* hessian_estimator's main loop: forward, backward, copy to the sample,
\* Observe, ClearDerivatives(csae)
HessianEstimatorExample ==
  /\ main.pc = "tool"
  /\ main.flags.tool = "hessian_estimator"
  /\ Len(main.log) < MaxSamples
  /\ \E loaded \in {Zeroed, Unknown} :
        ToolRecords(ToolExample(main.flags.gm, OnEntry(loaded),
                                <<>>, <<ClearStep(main.flags.gm)>>))

\* hessian_estimator_block's main loop: forward, backward, one Observe per
\* parameter group, ClearDerivatives(csae)
HessianEstimatorBlockExample ==
  /\ main.pc = "tool"
  /\ main.flags.tool = "hessian_estimator_block"
  /\ Len(main.log) < MaxSamples
  /\ \E loaded \in {Zeroed, Unknown} :
        ToolRecords(ToolExample(main.flags.gm, OnEntry(loaded),
                                <<>>, <<ClearStep(main.flags.gm)>>))

NextTools ==
  \/ EvalHessianSample
  \/ EvaluateGradientVarianceInDirection
  \/ HessianEstimatorExample
  \/ HessianEstimatorBlockExample

SpecTools == InitTools /\ [][NextTools]_vars

----------------------------------------------------------------------------
(* Gradient profiling *)

\* an example has run and the buffers are as it left them
ExampleLeftBuffers == gradients # <<>>

OneBackwardOfActiveGraph ==
  /\ \A p \in ParamsOf(machine) :
        Len(gradients[p]) = 1 /\ gradients[p][1].loss = "criterion"
  /\ \A p \in AllParams \ ParamsOf(machine) :
        \A k \in 1 .. Len(gradients[p]) : gradients[p][k] = Stale

NoProfilingUpdate ==
  \A k \in 1 .. Len(ProfileLocalGradMeasureExample) :
     ProfileLocalGradMeasureExample[k].op \in {"backward", "ClearDerivatives", "copyTo"}

\* C15 as stated: whenever profiling is on, the parameter-gradient buffers
\* left by an example hold one backward pass of the active graph from the
\* active criterion and nothing of the supervised-only pass.
C15_AsStated_ProfilingOn ==
  (profile_gradients /\ ExampleLeftBuffers) => OneBackwardOfActiveGraph

\* C15: when profiling is on and neither layerwise nor top-K training is in
\* effect (the one case in which the profiling steps run), every parameter
\* group of the active graph holds exactly one gradient, that of the active
\* criterion through the active graph, no other group holds anything the
\* example wrote, and no profiling step is an update.
C15_ProfilingObservational ==
  (ProfilingBranch /\ ExampleLeftBuffers) =>
     /\ OneBackwardOfActiveGraph
     /\ \A p \in ParamsOf(machine) : gradients[p] = <<Grad("criterion", machine)>>
     /\ \A p \in ParamsOf(SaeM) \ ParamsOf(machine) : gradients[p] = <<>>
     /\ NoProfilingUpdate

C15_Witness ==
  /\ ProfilingBranch
  /\ ExampleLeftBuffers
  /\ machine = SupUnsupM
  /\ sae.n_hidden_layers > 1
  /\ pc = "iter_final"

SavedAsStated(i) ==
  /\ {<<"upper_saved_grads", i>>, <<"sup_saved_grads", i>>, <<"unsup_saved_grads", i>>}
        \subseteq DOMAIN saved_grads
  /\ saved_grads[<<"upper_saved_grads", i>>] = Grad("criterion", machine)
  /\ saved_grads[<<"sup_saved_grads", i>>] = Grad("sup_criterion", SaeM)
  /\ saved_grads[<<"unsup_saved_grads", i>>] = Grad("criterion", machine)

\* C16: while profiling is enabled, every example leaves, for every hidden
\* layer, a snapshot of the gradient from the joint loss, one of the gradient
\* from the supervised loss alone (taken before the joint backward pass
\* overwrote it) and one of the gradient from the layer's reconstruction loss.
C16_ThreeSnapshotsPerLayer ==
  (profile_gradients /\ ExampleLeftBuffers) =>
     \A i \in Layers(sae) : SavedAsStated(i)

\* an example of TrainUnsupNotOutput under profiling: the supervised snapshot
\* is not a gradient of the supervised loss of this example
C16_Witness ==
  /\ ProfilingBranch
  /\ ExampleLeftBuffers
  /\ phase.name = "TrainUnsupNotOutput"
  /\ saved_grads[<<"sup_saved_grads", 0>>] = Stale
  /\ saved_grads[<<"unsup_saved_grads", 0>>] = Grad("criterion", machine)

\* where the supervised criterion is part of the active one and the graph holds
\* every decoder, the three snapshots are as stated (TrainSupUnsup)
C16_SnapshotsUnderSupUnsup ==
  (ProfilingBranch /\ ExampleLeftBuffers /\ phase.name = "TrainSupUnsup") =>
     \A i \in Layers(sae) : SavedAsStated(i)

----------------------------------------------------------------------------
(* Adaptive criterion reweighting *)

\* IterInitialize returns and the examples of the iteration follow
IterationStarts == pc = "iter_init" /\ pc' = "example"

WeightsReestimated(w) ==
  /\ w[0] = W(1)
  /\ \A i \in Layers(sae) : w[i + 1] = Hess(i)

\* C17 as stated: with reweighting enabled, every iteration starts with
\* re-estimated weights, the supervised one being 1.0.
C17_AsStated_BeforeEachIteration ==
  [][(IterationStarts /\ do_eval_criterion_weights)
        => WeightsReestimated(criterions_weights')]_vars

\* C17: with reweighting enabled, every iteration that starts while the epoch
\* counter is above 0 starts with re-estimated weights, the supervised one
\* being 1.0; an iteration that starts at epoch 0, or with reweighting
\* disabled, leaves the weights as they are.
C17_ReestimatedAfterFirstEpoch ==
  [][IterationStarts =>
       IF do_eval_criterion_weights /\ epoch > 0
       THEN WeightsReestimated(criterions_weights')
       ELSE criterions_weights' = criterions_weights]_vars

C17_Witness ==
  /\ pc = "example"
  /\ do_eval_criterion_weights
  /\ epoch > 0
  /\ phase.name = "TrainSupUnsup"
  /\ criterions_weights[0] = W(1)
  /\ criterions_weights[1] = Hess(0)

----------------------------------------------------------------------------
(* Properties of the main program (SpecMain) *)

\* the three configurations as the claim lists them
FatalAsStated(f) ==
  \/ f.n_layers > 4 /\ f.finetuning_layer_specific
  \/ f.init_from_binners /\ \E cap \in {f.max_iter_lwu, f.max_iter_uc, f.max_iter_ac} : cap # 0
  \/ f.recons_cost = "xentropy" /\ ~(f.nonlinearity \in {"sigmoid", "nonlinear"})

\* C13: with more than 4 hidden layers and layer-specific fine-tuning, with
\* init_from_binners and a nonzero layerwise, unsupervised or joint iteration
\* count, or with cross-entropy reconstruction and a nonlinearity other than
\* sigmoid or nonlinear, the only step the main program takes is the abort,
\* and nothing (no dataset, no model, no phase) has been done by then.
C13_FatalConfigurationAborts ==
  [][FatalAsStated(main.flags) => main'.pc = "aborted" /\ main'.log = <<>>]_vars

C13_Witness ==
  /\ main.pc = "aborted"
  /\ main.log = <<>>
  /\ main.flags.init_from_binners
  /\ main.flags.max_iter_ac # 0
  /\ main.flags.n_layers <= 4
  /\ main.flags.recons_cost = "mse"

\* position of a phase or of a checkpoint in the stated order, 0 for the rest
OrderAsStated(e) ==
  CASE e = Event("save", "afterinit") -> 1
    [] e.kind = "phase" /\ e.name \in {"TrainUnsupLayerwise", "TrainSelectiveUnsup"} -> 2
    [] e.kind = "phase" /\ e.name \in {"TrainUnsup", "TrainUnsupNotOutput"} -> 3
    [] e = Event("save", "afterpretraining") -> 4
    [] e = Event("phase", "TrainSupUnsup") -> 5
    [] e = Event("phase", "train") -> 6
    [] e = Event("save", "final") -> 7
    [] OTHER -> 0

\* the iteration cap of the phase at a position of the stated order
CapAsStated(f, k) ==
  CASE k = 2 -> f.max_iter_lwu
    [] k = 3 -> f.max_iter_uc
    [] k = 5 -> f.max_iter_ac
    [] k = 6 -> f.max_iter_sc

MainOrders == { OrderAsStated(main.log[i]) : i \in 1 .. Len(main.log) } \ {0}

\* C14: what the main program has done so far lists the checkpoints and the
\* phases in the order afterinit, layerwise-or-selective, joint unsupervised,
\* afterpretraining, joint supervised+unsupervised, supervised, final, each at
\* most once; a phase is run only with a nonzero iteration cap, and a run that
\* reaches its end has run every phase whose cap is nonzero.
C14_PhasesAndCheckpointsInOrder ==
  main.pc # "not_run" =>
    /\ \A i, j \in 1 .. Len(main.log) :
         (i < j /\ OrderAsStated(main.log[i]) > 0 /\ OrderAsStated(main.log[j]) > 0)
            => OrderAsStated(main.log[i]) < OrderAsStated(main.log[j])
    /\ \A k \in {2, 3, 5, 6} :
         /\ k \in MainOrders => CapAsStated(main.flags, k) # 0
         /\ (main.pc = "exit" /\ CapAsStated(main.flags, k) # 0) => k \in MainOrders

C14_Witness ==
  /\ main.pc = "exit"
  /\ MainOrders = 1 .. 7

----------------------------------------------------------------------------
(* Properties of the constructed topology (SpecBuild) *)

CodersBuilt == ctor_pc # "BuildCoders"

UnsupMachineBuilt == ctor_pc \in {"BuildSupUnsupMachine", "constructed"}

EncodersIn(g) == { m \in ModuleSet(g) : m[1] = "encoder" }

\* C4: in the Unsupervised graph of a noisy topology with N hidden layers,
\* Encoder(N-1) is not a module of the graph, and every encoder that is a
\* module has a consumer there, which is a higher encoder or an autoencoder
\* branch; the graph builds without a structural error.
C4_NoisyUnsupEncodersAllConsumed ==
  (UnsupMachineBuilt /\ sae.is_noisy) =>
     LET g == sae.unsup_machine
     IN /\ Enc(sae.n_hidden_layers - 1) \notin ModuleSet(g)
        /\ \A m \in EncodersIn(g) :
              /\ Consumers(g, m) # {}
              /\ \A c \in Consumers(g, m) :
                    \/ (c[1] = "encoder" /\ c[2] > m[2])
                    \/ c[1] = "autoencoder"
        /\ ~g.err

C4_Witness ==
  /\ ctor_pc = "constructed"
  /\ sae.is_noisy
  /\ sae.n_hidden_layers = 3
  /\ EncodersIn(sae.unsup_machine) = {Enc(0), Enc(1)}

\* C5 as stated: for a noisy topology with one hidden layer, Encoder(0) is
\* a module of the Unsupervised graph.
C5_AsStated_Encoder0InUnsupGraph ==
  (UnsupMachineBuilt /\ sae.is_noisy /\ sae.n_hidden_layers = 1) =>
     Enc(0) \in ModuleSet(sae.unsup_machine)

\* C5 amended: for a noisy topology with one hidden layer, the Unsupervised
\* graph holds the pass-through input module and Autoencoder(0) and nothing
\* else; Encoder(0) is not a module of it, and its parameters are reached
\* only through the noisy view inside Autoencoder(0).
C5_NoisySingleLayerUnsupGraph ==
  (UnsupMachineBuilt /\ sae.is_noisy /\ sae.n_hidden_layers = 1) =>
     /\ sae.unsup_machine.mods = <<InputHandle, AE(0)>>
     /\ Enc(0) \notin ModuleSet(sae.unsup_machine)
     /\ Enc(0) \in ParamsOf(UnsupM)
     /\ ~sae.unsup_machine.err

C5_Witness ==
  /\ ctor_pc = "constructed"
  /\ sae.is_noisy
  /\ sae.n_hidden_layers = 1
  /\ sae.unsup_machine.built

\* C7: for every layer-size specification and both settings of the tied and
\* noisy flags, Decoder(i) takes Encoder(i)'s output width as input and
\* gives Encoder(i)'s input width as output, for every hidden layer i.
C7_DecoderMirrorsEncoder ==
  CodersBuilt =>
     \A i \in Layers(sae) :
        /\ sae.encoders[i].n_inputs = sae.n_units_per_layer[i]
        /\ sae.encoders[i].n_outputs = sae.n_units_per_layer[i + 1]
        /\ sae.decoders[i].n_inputs = sae.encoders[i].n_outputs
        /\ sae.decoders[i].n_outputs = sae.encoders[i].n_inputs

C7_Witness ==
  /\ ctor_pc = "constructed"
  /\ sae.tied_weights
  /\ sae.is_noisy
  /\ sae.n_hidden_layers >= 2
  /\ \E i \in Layers(sae) : sae.encoders[i].n_inputs # sae.encoders[i].n_outputs

----------------------------------------------------------------------------
(* Properties of the trainer (Spec) *)

PhaseReturned == pc = "idle" /\ phase.name # "none"

InTrain == pc \in {"iter_init", "example", "iter_final", "train_done"}

\* C1: whenever a phase call has returned, the active machine is the full
\* supervised graph (sae), the active criterion is the supervised criterion,
\* and layerwise_training and topK_training are both false.
C1_DefaultsRestoredAfterPhase ==
  PhaseReturned =>
     /\ machine = SaeM
     /\ criterion = SupCriterion
     /\ ~layerwise_training
     /\ ~topK_training

C1_Witness ==
  /\ pc = "idle"
  /\ phase.name = "TrainSupUnsup"
  /\ criterions_weights[1] # W(0)
  /\ epoch > 0

\* C2: whenever a phase call has returned, no encoder, no autoencoder and
\* not the outputer has its partial-backprop flag set, whatever
\* partial_backprop value TrainSelectiveUnsup was given and whether or not
\* TrainUnsup ran.
C2_FullBackpropAfterPhase ==
  PhaseReturned =>
     \A m \in FlagModules(sae) : ~partial_backprop[m]

C2_Witness ==
  /\ pc = "idle"
  /\ phase.name = "TrainSelectiveUnsup"
  /\ phase.partial_backprop
  /\ sae.is_noisy
  /\ epoch > 0

InLayerwiseTraining ==
  /\ layerwise_training
  /\ phase.name \in {"TrainUnsupLayerwise", "TrainSelectiveUnsupLayerwise"}
  /\ pc \in {"iter_init", "example", "iter_final", "train_done", "aborted"}

LowerEncodersAndOutputer(i) == { Enc(j) : j \in 0 .. i - 1 } \cup {Outputer}

\* C3 as stated: during the per-layer phase for layer i every backward call
\* is on Autoencoder(i) only: no module outside Autoencoder(i) is reached by
\* a backward call, and no lower encoder and not the outputer is updated.
\* (Stated for runs in which sup_dataset has been assigned.)
C3_AsStated_OnlyAutoencoderBackward ==
  (InLayerwiseTraining /\ sup_dataset # "uninit") =>
     /\ bwd_seen \subseteq LeafModules(AE(layerwise_layer))
     /\ changed \cap LowerEncodersAndOutputer(layerwise_layer) = {}

\* C3 amended: during the per-layer phase for layer i, every backward call
\* of the training step (fpropbprop) is on Autoencoder(i) only, and no
\* parameter of an encoder j < i or of the outputer is changed by the phase;
\* a module outside Autoencoder(i) is reached by a backward call only in the
\* criterion-weight re-estimation of IterInitialize
\* (do_eval_criterion_weights, from the second epoch on), which updates
\* nothing.
C3_LayerwiseStepOnlyAutoencoder ==
  InLayerwiseTraining =>
     /\ \A k \in 1 .. Len(bwd_calls) : bwd_calls[k].m = AE(layerwise_layer)
     /\ changed \cap LowerEncodersAndOutputer(layerwise_layer) = {}
     /\ changed \subseteq ParamsOf(AE(layerwise_layer))
     /\ (~(bwd_seen \subseteq LeafModules(AE(layerwise_layer)))
           => do_eval_criterion_weights /\ epoch > 0)

C3_Witness ==
  /\ InLayerwiseTraining
  /\ phase.name = "TrainUnsupLayerwise"
  /\ layerwise_layer = 1
  /\ pc = "train_done"
  /\ changed = {Enc(1), Dec(1)}
  /\ Outputer \in bwd_seen

SelectiveGraphBuilt == phase.name = "TrainSelectiveUnsup" /\ InTrain

\* C6 as stated: the selective graph holds exactly the encoders up to the
\* highest included layer (Encoder(0) and Encoder(1) for layers 0 and 1 of
\* a 3-layer topology).
C6_AsStated_EncodersUpToTopmost ==
  SelectiveGraphBuilt =>
     EncodersIn(selective_machine) =
        { Enc(j) : j \in 0 .. TopmostTrained(phase.pretrain_list) }

\* C6 amended: the selective graph never holds an encoder above the highest
\* included layer t; a non-noisy topology gets exactly Encoder(0..t), a
\* noisy one exactly Encoder(0..t-1), the included layers being represented
\* by their autoencoders (so layers 0 and 1 of a noisy 3-layer topology
\* build Encoder(0), Autoencoder(0) and Autoencoder(1)).
C6_SelectiveEncodersBounded ==
  SelectiveGraphBuilt =>
     LET t == TopmostTrained(phase.pretrain_list)
         g == selective_machine
     IN /\ \A m \in EncodersIn(g) : m[2] <= t
        /\ ~sae.is_noisy => EncodersIn(g) = { Enc(j) : j \in 0 .. t }
        /\ sae.is_noisy =>
              /\ EncodersIn(g) = { Enc(j) : j \in 0 .. t - 1 }
              /\ { m \in ModuleSet(g) : m[1] = "autoencoder" }
                    = { AE(j) : j \in Selected(phase.pretrain_list) }

C6_Witness ==
  /\ SelectiveGraphBuilt
  /\ pc = "example"
  /\ sae.is_noisy
  /\ sae.n_hidden_layers = 3
  /\ phase.pretrain_list = [i \in 0 .. 2 |-> IF i < 2 THEN 1 ELSE 0]
  /\ ModuleSet(selective_machine) = {Enc(0), InputHandle, AE(0), AE(1)}

CallTargets(calls) == [k \in 1 .. Len(calls) |-> calls[k].m]

\* the outputer, then the K-1 highest encoders in descending order
TopKExpectedTargets(n, k) ==
  [j \in 1 .. k |-> IF j = 1 THEN Outputer ELSE Enc(n - j + 1)]

\* C8: in top-K training with 1 <= K <= N+1, the backward pass of each
\* example calls backward on the outputer and then on exactly the K-1
\* highest encoders, N-1 down to N-K+1, and on no encoder below N-K+1
\* (bwd_calls holds the calls the last example's backward pass made).
C8_TopKBackwardTargets ==
  (topK_training /\ phase.name = "TrainSupervisedTopKLayers"
     /\ bwd_calls # <<>>) =>
     CallTargets(bwd_calls) = TopKExpectedTargets(sae.n_hidden_layers, topKlayers)

\* C8 apart from the single-layer fault: whenever N > 1 or K = 1 the calls
\* are exactly those, and in no run is an encoder below N-K+1 called.
C8_TopKBackwardTargetsAboveOneLayer ==
  (topK_training /\ phase.name = "TrainSupervisedTopKLayers"
     /\ bwd_calls # <<>>) =>
     /\ (sae.n_hidden_layers > 1 \/ topKlayers = 1) =>
           CallTargets(bwd_calls) =
              TopKExpectedTargets(sae.n_hidden_layers, topKlayers)
     /\ \A k \in 1 .. Len(bwd_calls) :
           \/ bwd_calls[k].m = Outputer
           \/ (bwd_calls[k].m[1] = "encoder"
                 /\ bwd_calls[k].m[2] >= sae.n_hidden_layers - topKlayers + 1)

C8_Witness ==
  /\ topK_training
  /\ sae.n_hidden_layers = 3
  /\ topKlayers = 3
  /\ pc = "iter_final"
  /\ CallTargets(bwd_calls) = <<Outputer, Enc(2), Enc(1)>>

FinetuneExampleDone == is_finetuning /\ phase.name = "train" /\ pc = "iter_final"

UpdatesOf(m) == { k \in 1 .. Len(upd_calls) : upd_calls[k].gm = m }

RateOf(m) ==
  IF m = Outputer
  THEN finetuning_learning_rates[sae.n_hidden_layers]
  ELSE finetuning_learning_rates[m[2]]

\* C9: with is_finetuning, one parameter-update request is carried out as
\* at most N+1 updates, each on an Encoder(i) with
\* finetuning_learning_rates[i] or on the outputer with
\* finetuning_learning_rates[N]; a module whose rate is <= 0 gets no update,
\* one whose rate is > 0 gets exactly one, and no decoder is updated.
C9_FinetuneUpdatesPerLayer ==
  FinetuneExampleDone =>
     /\ Len(upd_calls) <= sae.n_hidden_layers + 1
     /\ \A k \in 1 .. Len(upd_calls) :
           /\ upd_calls[k].gm \in { Enc(i) : i \in Layers(sae) } \cup {Outputer}
           /\ upd_calls[k].lr = FineLR(RateOf(upd_calls[k].gm))
     /\ \A m \in { Enc(i) : i \in Layers(sae) } \cup {Outputer} :
           Cardinality(UpdatesOf(m)) = (IF RateOf(m) > 0 THEN 1 ELSE 0)
     /\ changed \cap { Dec(i) : i \in Layers(sae) } = {}
     /\ \A m \in { Enc(i) : i \in Layers(sae) } \cup {Outputer} :
           RateOf(m) <= 0 => m \notin changed

C9_Witness ==
  /\ FinetuneExampleDone
  /\ sae.n_hidden_layers = 2
  /\ finetuning_learning_rates = [i \in 0 .. 2 |-> IF i = 1 THEN 0 ELSE 1]
  /\ upd_calls = <<Update(Enc(0), FineLR(1)), Update(Outputer, FineLR(1))>>
  /\ changed = {Enc(0), Outputer}

InSupUnsup == phase.name \in {"TrainSupUnsup", "TrainUnsup"} /\ InTrain

SupUnsupTermsAsStated ==
  /\ machine = SupUnsupM
  /\ criterion.kind = "concat_criterion"
  /\ criterion.n_criterions = sae.n_hidden_layers + 1
  /\ criterion.criterions =
        [k \in 1 .. sae.n_hidden_layers + 1 |->
           IF k = 1 THEN SupCriterion ELSE UnsupCriterion(k - 2)]

CallerSuppliedWeights ==
  [k \in 1 .. sae.n_hidden_layers + 1 |-> IF k = 1 THEN W(1) ELSE phase.weight]

\* C10 as stated: in TrainSupUnsup the active graph is the Joint graph and
\* the loss has N+1 terms, the supervised criterion first with weight 1.0,
\* then the reconstruction criteria of layers 0..N-1 in order, each with the
\* caller-supplied weight.
C10_AsStated_CallerWeights ==
  InSupUnsup =>
     /\ SupUnsupTermsAsStated
     /\ TermWeights(criterion) = CallerSuppliedWeights

\* C10 amended: graph and terms as stated and the supervised weight is
\* always 1.0; the reconstruction terms carry the caller-supplied weight
\* until IterInitialize re-estimates the weights (do_eval_criterion_weights,
\* from the second epoch on), after which term 1+i carries the weight
\* estimated for layer i.
C10_SupUnsupTermsAndWeights ==
  InSupUnsup =>
     /\ SupUnsupTermsAsStated
     /\ TermWeight(criterion, 0) = W(1)
     /\ \/ TermWeights(criterion) = CallerSuppliedWeights
        \/ /\ do_eval_criterion_weights
           /\ epoch > 0
           /\ TermWeights(criterion) =
                 [k \in 1 .. sae.n_hidden_layers + 1 |->
                    IF k = 1 THEN W(1) ELSE Hess(k - 2)]
     /\ ~do_eval_criterion_weights => TermWeights(criterion) = CallerSuppliedWeights

C10_Witness ==
  /\ InSupUnsup
  /\ phase.name = "TrainSupUnsup"
  /\ sae.n_hidden_layers = 2
  /\ pc = "example"
  /\ TermWeights(criterion) = <<W(1), Hess(0), Hess(1)>>

\* C11: during TrainUnsup the outputer's partial-backprop flag is true at
\* every point of the training run (so for every forward/backward pass) and
\* false once TrainUnsup has returned, and no step of TrainUnsup changes the
\* flag of any other module.
C11_OutputerPartialDuringTrainUnsup ==
  [][ phase'.name = "TrainUnsup" =>
        /\ \A m \in FlagModules(sae) \ {Outputer} :
              partial_backprop'[m] = partial_backprop[m]
        /\ pc' \in {"iter_init", "example", "iter_final", "train_done", "aborted"}
              => partial_backprop'[Outputer]
        /\ pc' = "idle" => ~partial_backprop'[Outputer] ]_vars

C11_Witness ==
  /\ phase.name = "TrainUnsup"
  /\ pc = "iter_final"
  /\ bwd_calls # <<>>
  /\ partial_backprop[Outputer]
  /\ epoch > 0

InUnsupNotOutput ==
  /\ phase.name = "TrainUnsupNotOutput"
  /\ pc \in {"iter_init", "example", "iter_final", "train_done", "aborted"}

UnsupNotOutputTermsAsStated ==
  /\ machine = UnsupM
  /\ criterion.kind = "concat_criterion"
  /\ criterion.n_criterions = sae.n_hidden_layers
  /\ criterion.criterions = [k \in 1 .. sae.n_hidden_layers |-> UnsupCriterion(k - 1)]
  /\ \A k \in 1 .. Len(criterion.criterions) : criterion.criterions[k] # SupCriterion
  \* term k reads its own slot criterions_weights[1+k]; slot 0 is skipped
  /\ \A k \in 0 .. sae.n_hidden_layers - 1 :
        TermWeight(criterion, k) = criterions_weights[k + 1]
  /\ Outputer \notin LeafModules(UnsupM)

\* C12 as stated: in TrainUnsupNotOutput the active graph is the
\* Unsupervised graph, the loss has the N reconstruction terms in order, the
\* supervised criterion is not a term, the outputer is not a module of the
\* active graph, and it gets no backward call and no update during the phase.
\* (Stated for runs in which sup_dataset has been assigned.)
C12_AsStated_OutputerNeverBackwarded ==
  (InUnsupNotOutput /\ sup_dataset # "uninit") =>
     /\ UnsupNotOutputTermsAsStated
     /\ Outputer \notin bwd_seen
     /\ Outputer \notin changed

\* C12 amended: graph, terms and weights as stated, the outputer is not a
\* module of the active graph and is never updated during the phase; it is
\* given a backward call only by the supervised-only pass of gradient
\* profiling or by the criterion-weight re-estimation of IterInitialize, and
\* without profiling every backward call of the training step is on the
\* Unsupervised graph.
C12_UnsupNotOutputGraphAndTerms ==
  InUnsupNotOutput =>
     /\ UnsupNotOutputTermsAsStated
     /\ Outputer \notin changed
     /\ changed \subseteq ParamsOf(UnsupM)
     /\ Outputer \in bwd_seen =>
           profile_gradients \/ (do_eval_criterion_weights /\ epoch > 0)
     /\ ~profile_gradients => \A k \in 1 .. Len(bwd_calls) : bwd_calls[k].m = UnsupM

C12_Witness ==
  /\ InUnsupNotOutput
  /\ pc = "iter_final"
  /\ sae.n_hidden_layers = 2
  /\ ~profile_gradients
  /\ ~do_eval_criterion_weights
  /\ CallTargets(bwd_calls) = <<UnsupM>>
  /\ Outputer \notin bwd_seen
  /\ changed # {}

----------------------------------------------------------------------------
(* build() of the graphs *)

BuiltOnceWhenComplete(g) == g.n_builds = 1 /\ g.built /\ ~g.late

TopologyGraphs ==
  { sae.autoencoders[i] : i \in Layers(sae) }
  \cup { sae.mesd_machines[i] : i \in Layers(sae) }
  \cup {sae.sup_machine, sae.unsup_machine, sae.sup_unsup_machine}

SelectiveInUse == phase.name = "TrainSelectiveUnsup" /\ pc # "idle"

\* graphs given a forward or a backward call in the current state
GraphsCalled ==
  (IF InTrain /\ pc # "iter_init" THEN {machine} ELSE {})
  \cup { bwd_calls[k].m : k \in { j \in 1 .. Len(bwd_calls) : IsMachine(bwd_calls[j].m) } }

\* C18: each graph of the topology, and the selective graph of a
\* TrainSelectiveUnsup call, has had exactly one build(), made after its last
\* module was added and connected; a graph that was given a forward or a
\* backward call has been built.
C18_BuildOnceBeforeUse ==
  /\ \A g \in TopologyGraphs : BuiltOnceWhenComplete(g)
  /\ IF SelectiveInUse
     THEN BuiltOnceWhenComplete(selective_machine)
     ELSE selective_machine.n_builds = 0
  /\ \A m \in GraphsCalled : GraphOf(m).n_builds = 1

C18_Witness ==
  /\ SelectiveInUse
  /\ machine = SelectiveM
  /\ pc = "iter_final"
  /\ Len(selective_machine.mods) > 2
  /\ bwd_calls # <<>>

\* during the constructor: the graphs of the steps done are built once, the
\* others not at all
C18_ConstructorBuildsInOrder ==
  LET done(step) == CASE step = "autoencoders" -> ctor_pc \notin {"BuildCoders", "BuildAutoencoders"}
                      [] step = "mesd" -> ctor_pc \notin {"BuildCoders", "BuildAutoencoders", "BuildMesdMachines"}
                      [] step = "sup" -> ctor_pc \in {"BuildUnsupMachine", "BuildSupUnsupMachine", "constructed"}
                      [] step = "unsup" -> ctor_pc \in {"BuildSupUnsupMachine", "constructed"}
                      [] step = "sup_unsup" -> ctor_pc = "constructed"
      ok(g, step) == IF done(step) THEN BuiltOnceWhenComplete(g) ELSE g.n_builds = 0
  IN /\ done("autoencoders") => \A i \in Layers(sae) : BuiltOnceWhenComplete(sae.autoencoders[i])
     /\ done("mesd") => \A i \in Layers(sae) : BuiltOnceWhenComplete(sae.mesd_machines[i])
     /\ ok(sae.sup_machine, "sup")
     /\ ok(sae.unsup_machine, "unsup")
     /\ ok(sae.sup_unsup_machine, "sup_unsup")

----------------------------------------------------------------------------
(* The cumulative graphs and the autoencoders *)

MesdMachinesBuilt ==
  ctor_pc \notin {"BuildCoders", "BuildAutoencoders", "BuildMesdMachines"}

\* the chain the claim describes for layer i
ChainAsStated(i) ==
  [k \in 1 .. i + 2 |->
     IF k <= i THEN Enc(k - 1)
     ELSE IF k = i + 1
          THEN (IF sae.is_noisy THEN NEnc(i) ELSE Enc(i))
          ELSE Dec(i)]

\* a graph whose modules are exactly this sequence, each fed by the one before
IsChain(g, mods) ==
  /\ g.mods = mods
  /\ g.links = { <<mods[k + 1], mods[k]>> : k \in 1 .. Len(mods) - 1 }
  /\ \A k \in 1 .. Len(mods) : g.layerOf[k] = k - 1

\* C19: for every layer i, mesd(i) is the chain Encoder(0..i-1), the noisy
\* encoder of layer i if the topology is noisy and Encoder(i) otherwise,
\* Decoder(i); Autoencoder(i) is the chain of its last two modules.
C19_MesdChainAndAutoencoder ==
  MesdMachinesBuilt =>
    \A i \in Layers(sae) :
       /\ IsChain(sae.mesd_machines[i], ChainAsStated(i))
       /\ IsChain(sae.autoencoders[i], SubSeq(ChainAsStated(i), i + 1, i + 2))

C19_Witness ==
  /\ MesdMachinesBuilt
  /\ sae.is_noisy
  /\ sae.n_hidden_layers = MaxLayers
  /\ sae.mesd_machines[MaxLayers - 1].mods[MaxLayers] = NEnc(MaxLayers - 1)

----------------------------------------------------------------------------
(* Weight tying *)

\* m reads the weights of Encoder(i) in place: what an update of Encoder(i)
\* writes is what the next forward of m computes with
ViewOfEncoder(m, c, i) ==
  /\ c.tied_coder = Enc(i)
  /\ Enc(i) \in ParamsOfModule(m)

\* C20: with tying, every Decoder(i) is a transposed view of Encoder(i)'s
\* weights; every NoisyEncoder(i) is a view of Encoder(i)'s weights and has no
\* parameters of its own; without tying every Decoder(i) has its own weights,
\* shared with no other module.
C20_TiedDecodersAreViews ==
  CodersBuilt =>
    \A i \in Layers(sae) :
       /\ sae.tied_weights =>
            ViewOfEncoder(Dec(i), sae.decoders[i], i) /\ sae.decoders[i].is_transposed
       /\ ~sae.tied_weights =>
            /\ sae.decoders[i].tied_coder = NoCoder
            /\ ParamsOfModule(Dec(i)) = {Dec(i)}
            /\ \A j \in Layers(sae) : Dec(i) \notin ParamsOfModule(Enc(j))
       /\ sae.is_noisy =>
            /\ ViewOfEncoder(NEnc(i), sae.noisy_encoders[i], i)
            /\ ParamsOfModule(NEnc(i)) = {Enc(i)}

C20_Witness ==
  /\ CodersBuilt
  /\ sae.tied_weights
  /\ sae.is_noisy
  /\ sae.n_hidden_layers = MaxLayers
  /\ ParamsOfModule(Dec(MaxLayers - 1)) = {Dec(MaxLayers - 1), Enc(MaxLayers - 1)}

----------------------------------------------------------------------------
(* Top-K backward pass: what each encoder's backward call is handed *)

InTopKExample ==
  /\ topK_training
  /\ phase.name = "TrainSupervisedTopKLayers"
  /\ bwd_calls # <<>>

\* the input and the output gradient Encoder(i) is to receive
EncoderCallAsStated(i) ==
  Call(Enc(i),
       IF i = 0 THEN DataInputs ELSE OutputsOf(Enc(i - 1)),
       IF i = sae.n_hidden_layers - 1 THEN BetaOf(Outputer) ELSE BetaOf(Enc(i + 1)))

EncoderCallsAsStated(calls) ==
  \A k \in 1 .. Len(calls) :
     calls[k].m[1] = "encoder" =>
        /\ calls[k] = EncoderCallAsStated(calls[k].m[2])
        /\ ~ReadsOutOfRange(calls[k])

\* C21: in the top-K backward pass, for every N >= 1 and K in [1, N+1],
\* Encoder(i)'s backward receives the external input when i = 0 and
\* Encoder(i-1)'s output otherwise, and the classifier's input gradient when
\* i = N-1 and Encoder(i+1)'s input gradient otherwise; no encoder index
\* outside [0, N) is read (fpropbprop is the list of calls the pass makes in
\* the current state).
C21_TopKEncoderInputsInRange ==
  InTopKExample => EncoderCallsAsStated(fpropbprop)

\* C21 apart from the single-layer case: with N > 1 or K = 1 every call is
\* as stated and stays in range.
C21_TopKEncoderInputsAboveOneLayer ==
  (InTopKExample /\ (sae.n_hidden_layers > 1 \/ topKlayers = 1)) =>
     EncoderCallsAsStated(fpropbprop)

\* the pass of a one-layer topology with K = 2 stopped at the read of
\* encoders[-1], after the classifier's backward
C21_Witness ==
  /\ InTopKExample
  /\ sae.n_hidden_layers = 1
  /\ topKlayers = 2
  /\ pc = "aborted"
  /\ CallTargets(bwd_calls) = <<Outputer>>

----------------------------------------------------------------------------
(* Per-layer phase: the input of the autoencoder's backward call *)

\* what the coding module of layer i is fed in the forward pass of
\* mesd_machines[i]: its producer's output, the external input without one
MesdForwardFeed(i) ==
  LET p == Producers(sae.mesd_machines[i], CodingModule(sae, i))
  IN IF p = {} THEN DataInputs ELSE OutputsOf(CHOOSE m \in p : TRUE)

LayerwiseExampleDone == InLayerwiseTraining /\ bwd_calls # <<>>

AutoencoderBackwardInputs ==
  { bwd_calls[k].input :
      k \in { j \in 1 .. Len(bwd_calls) : bwd_calls[j].m = AE(layerwise_layer) } }

\* C22: in the per-layer phase for layer i, the input handed to
\* Autoencoder(i)'s backward is the vector Autoencoder(i) was fed in the
\* forward pass of mesd(i): the external input for i = 0, Encoder(i-1)'s
\* output for i > 0.
C22_AutoencoderBackwardInput ==
  LayerwiseExampleDone =>
     /\ MesdForwardFeed(layerwise_layer) =
           (IF layerwise_layer = 0 THEN DataInputs
            ELSE OutputsOf(Enc(layerwise_layer - 1)))
     /\ AutoencoderBackwardInputs = {MesdForwardFeed(layerwise_layer)}

\* C22 for the first layer only, where the two vectors coincide
C22_FirstLayerBackwardInput ==
  (LayerwiseExampleDone /\ layerwise_layer = 0) =>
     AutoencoderBackwardInputs = {MesdForwardFeed(0)}

\* layer 1 was fed Encoder(0)'s output forward and the external input backward
C22_Witness ==
  /\ LayerwiseExampleDone
  /\ layerwise_layer = 1
  /\ MesdForwardFeed(1) = OutputsOf(Enc(0))
  /\ bwd_calls = <<Call(AE(1), DataInputs, CriterionBeta)>>

----------------------------------------------------------------------------
(* The pass-through input module and the shape of the selective graph *)

\* position of module m in g's insertion order, 0 when it is not in g
Pos(g, m) ==
  IF m \in ModuleSet(g)
  THEN CHOOSE k \in 1 .. Len(g.mods) : g.mods[k] = m
  ELSE 0

LayerOfModule(g, m) == g.layerOf[Pos(g, m)]

SelectiveListInUse == SelectiveInUse /\ Selected(phase.pretrain_list) # {}

GraphsInUse ==
  TopologyGraphs \cup (IF SelectiveInUse THEN {selective_machine} ELSE {})

\* the first-layer autoencoder hangs on the pass-through module, which was
\* added to g before it
OnPassThrough(g) ==
  /\ Producers(g, AE(0)) = {InputHandle}
  /\ LayerOfModule(g, AE(0)) > 0
  /\ Pos(g, InputHandle) > 0
  /\ Pos(g, InputHandle) < Pos(g, AE(0))

\* C23: in every graph that contains the noisy first-layer autoencoder (the
\* unsupervised graph, the joint graph, and a selective graph with layer 0
\* selected) that autoencoder's only producer is the pass-through input
\* module, which was added to the graph before the connection was made; in a
\* non-noisy topology the pass-through module is in no graph.
C23_NoisyFirstLayerOnPassThrough ==
  /\ \A g \in GraphsInUse : AE(0) \in ModuleSet(g) => OnPassThrough(g)
  /\ sae.is_noisy =>
        /\ AE(0) \in ModuleSet(sae.unsup_machine)
        /\ AE(0) \in ModuleSet(sae.sup_unsup_machine)
        /\ (SelectiveInUse /\ phase.pretrain_list[0] = 1) =>
              AE(0) \in ModuleSet(selective_machine)
  /\ ~sae.is_noisy => \A g \in GraphsInUse : InputHandle \notin ModuleSet(g)

C23_Witness ==
  /\ SelectiveInUse
  /\ sae.is_noisy
  /\ sae.n_hidden_layers = MaxLayers
  /\ phase.pretrain_list[0] = 1
  /\ phase.pretrain_list[MaxLayers - 1] = 1
  /\ pc = "example"
  /\ OnPassThrough(selective_machine)
  /\ OnPassThrough(sae.unsup_machine)

\* every connection of g was made on a module added before its consumer
TargetsAddedEarlier(g) ==
  \A l \in g.links : Pos(g, l[2]) > 0 /\ Pos(g, l[2]) < Pos(g, l[1])

\* every module outside layer 0 has a producer
ProducersPresent(g) ==
  \A m \in ModuleSet(g) : LayerOfModule(g, m) > 0 => Producers(g, m) # {}

\* every encoder is consumed by a higher encoder or a reconstruction branch
EncodersConsumed(g) ==
  \A m \in EncodersIn(g) :
     \E c \in Consumers(g, m) :
        \/ (c[1] = "encoder" /\ c[2] > m[2])
        \/ c[1] \in {"decoder", "autoencoder"}

\* C24: for every inclusion list with at least one selected layer, noisy or
\* not, the selective graph is well-formed: every connectOn target was added
\* earlier, every module outside layer 0 has a producer, every encoder in the
\* graph is consumed by a higher encoder or by a reconstruction branch, and
\* the pass-through module is absent exactly when nothing connects on it.
C24_SelectiveGraphWellFormed ==
  SelectiveListInUse =>
     /\ ~selective_machine.err
     /\ TargetsAddedEarlier(selective_machine)
     /\ ProducersPresent(selective_machine)
     /\ EncodersConsumed(selective_machine)
     /\ (InputHandle \notin ModuleSet(selective_machine)) =>
           \A l \in selective_machine.links : l[2] # InputHandle

\* a noisy topology, layer 0 left out: no pass-through module, and the
\* autoencoder of the top layer hangs on the encoder below it
C24_Witness ==
  /\ SelectiveListInUse
  /\ sae.is_noisy
  /\ sae.n_hidden_layers = MaxLayers
  /\ Selected(phase.pretrain_list) = {MaxLayers - 1}
  /\ InputHandle \notin ModuleSet(selective_machine)
  /\ Producers(selective_machine, AE(MaxLayers - 1)) = {Enc(MaxLayers - 2)}
  /\ pc = "example"

----------------------------------------------------------------------------
(* Selective phase: which modules carry the caller's partial_backprop *)

AllEncoders == { Enc(i) : i \in Layers(sae) }

AllAutoencoders == { AE(i) : i \in Layers(sae) }

\* the autoencoders TrainSelectiveUnsup sets the flag of
SelectedNoisyAutoencoders ==
  IF sae.is_noisy
  THEN { AE(i) : i \in Selected(phase.pretrain_list) }
  ELSE {}

\* C25 as stated: while the selective phase trains, every encoder and every
\* autoencoder of the topology carries the caller's partial_backprop value,
\* whether or not its layer is selected.
C25_AsStated_ToggleOnEveryModule ==
  SelectiveGraphBuilt =>
     \A m \in AllEncoders \cup AllAutoencoders :
        partial_backprop[m] = phase.partial_backprop

\* C25 amended: while the selective phase trains, every encoder of the
\* topology carries the caller's partial_backprop value, selected or not; an
\* autoencoder carries it only in a noisy topology and only when its layer is
\* selected; every other autoencoder, and the outputer, is left on full
\* backprop.
C25_ToggleOnEncodersAndSelected ==
  SelectiveGraphBuilt =>
     /\ \A m \in AllEncoders \cup SelectedNoisyAutoencoders :
           partial_backprop[m] = phase.partial_backprop
     /\ \A m \in (AllAutoencoders \ SelectedNoisyAutoencoders) \cup {Outputer} :
           partial_backprop[m] = FALSE

C25_Witness ==
  /\ SelectiveGraphBuilt
  /\ sae.is_noisy
  /\ sae.n_hidden_layers = MaxLayers
  /\ phase.partial_backprop
  /\ Selected(phase.pretrain_list) = {0}
  /\ partial_backprop[Enc(MaxLayers - 1)]
  /\ partial_backprop[AE(0)]
  /\ ~partial_backprop[AE(MaxLayers - 1)]
  /\ pc = "iter_final"

----------------------------------------------------------------------------
(* Weight decay and the shared weight matrices *)

AllCoderIds ==
  { Enc(i) : i \in Layers(sae) } \cup { Dec(i) : i \in Layers(sae) }
  \cup { NEnc(i) : i \in DOMAIN sae.noisy_encoders } \cup {Outputer}

CoderOf(m) ==
  CASE m[1] = "encoder" -> sae.encoders[m[2]]
    [] m[1] = "noisy_encoder" -> sae.noisy_encoders[m[2]]
    [] m[1] = "decoder" -> sae.decoders[m[2]]
    [] m[1] = "outputer" -> sae.outputer

\* the module that owns the weight matrix m computes with
WeightMatrixOf(m) ==
  IF CoderOf(m).tied_coder = NoCoder THEN m ELSE CoderOf(m).tied_coder

WeightMatrices == { WeightMatrixOf(m) : m \in AllCoderIds }

DecaysSet == sae.l1_weight_decay # NoArray /\ sae.l2_weight_decay # NoArray

OneModulePerMatrix(options) ==
  \A w \in WeightMatrices :
     Cardinality({ m \in DOMAIN options : WeightMatrixOf(m) = w }) = 1

DecayTargetsAsStated ==
  { Enc(i) : i \in Layers(sae) } \cup {Outputer}
  \cup (IF sae.tied_weights THEN {} ELSE { Dec(i) : i \in Layers(sae) })

\* C26: once setL1WeightDecay and setL2WeightDecay have run, each option is
\* set on every encoder and the outputer, on every decoder too when the
\* weights are untied, on no decoder when they are tied and never on a noisy
\* encoder; so each weight matrix carries the decay through exactly one
\* module.
C26_DecayOncePerWeightMatrix ==
  DecaysSet =>
     /\ DOMAIN sae.l1_weight_decay = DecayTargetsAsStated
     /\ DOMAIN sae.l2_weight_decay = DecayTargetsAsStated
     /\ OneModulePerMatrix(sae.l1_weight_decay)
     /\ OneModulePerMatrix(sae.l2_weight_decay)
     /\ \A m \in DecayTargetsAsStated :
           sae.l1_weight_decay[m] = sae.l1_weight_decay[Outputer]
           /\ sae.l2_weight_decay[m] = sae.l2_weight_decay[Outputer]

C26_Witness ==
  /\ DecaysSet
  /\ sae.tied_weights
  /\ sae.is_noisy
  /\ sae.n_hidden_layers = MaxLayers
  /\ sae.l1_weight_decay[Enc(0)] = 1
  /\ sae.l2_weight_decay[Enc(0)] = 0
  /\ Dec(0) \notin DOMAIN sae.l1_weight_decay
  /\ WeightMatrixOf(Dec(0)) = Enc(0)

----------------------------------------------------------------------------
(* The gradient samples of EvalHessian and of the analysis tools *)

\* der_params of the machine held only zeros at the backward call, and the
\* recorded sample is the gradient of one example
SampleOfOneExample(e) ==
  /\ \A p \in DOMAIN e.at_backward : e.at_backward[p] = <<>>
  /\ \A p \in DOMAIN e.sample : e.sample[p] = <<Grad("criterion", e.gm)>>

ToolSamples == { main.log[k] : k \in 1 .. Len(main.log) }

ClearingProcedures == {"EvalHessian", "EvaluateGradientVarianceInDirection"}

\* C27: at every backward call made by EvalHessian, by
\* EvaluateGradientVarianceInDirection and by the two gradient-covariance
\* tools, the machine's parameter-gradient buffers hold only zeros, so each
\* recorded sample is the gradient of exactly one example.
C27_BuffersZeroAtEveryBackward ==
  \A e \in ToolSamples : SampleOfOneExample(e)

\* what does hold: every sample of EvalHessian and of
\* EvaluateGradientVarianceInDirection, and every sample but the first of
\* the two tools
C27_ZeroAfterAnExplicitClear ==
  \A k \in 1 .. Len(main.log) :
     (main.log[k].tool \in ClearingProcedures \/ k > 1) =>
        SampleOfOneExample(main.log[k])

\* the first sample of hessian_estimator, taken over buffers nothing cleared
C27_Witness ==
  /\ main.pc = "tool"
  /\ main.flags.tool = "hessian_estimator"
  /\ Len(main.log) = MaxSamples
  /\ ~SampleOfOneExample(main.log[1])
  /\ SampleOfOneExample(main.log[MaxSamples])

----------------------------------------------------------------------------
(* sup_dataset and the adaptive reweighting *)

\* IterInitialize is about to run EvalHessian(sae, sup_criterion, sup_dataset)
ReweightingDue == pc = "iter_init" /\ do_eval_criterion_weights /\ epoch > 0

\* C28: whenever IterInitialize runs the adaptive reweighting, sup_dataset
\* has already been assigned by TrainSupUnsup, whichever phases ran before,
\* a layerwise or unsupervised phase of two or more iterations included.
C28_SupDatasetAssignedBeforeReweighting ==
  ReweightingDue => sup_dataset # "uninit"

\* the second iteration of a layerwise phase run first: the weights were
\* re-estimated from a sup_dataset nothing had assigned
C28_Witness ==
  /\ phase.name = "TrainUnsupLayerwise"
  /\ do_eval_criterion_weights
  /\ epoch = 1
  /\ sup_dataset = "uninit"
  /\ pc = "example"
  /\ WeightsReestimated(criterions_weights)

----------------------------------------------------------------------------
(* Multi-loss phases: the criteria against the outputs of the active graph *)

\* the modules on the last layer of g, in insertion order: their outputs,
\* concatenated, are the graph's output
TerminalModules(g) ==
  LET idx == SelectSeq([k \in 1 .. Len(g.mods) |-> k],
                       LAMBDA k : g.layerOf[k] = g.cur)
  IN [j \in 1 .. Len(idx) |-> g.mods[idx[j]]]

\* criterion c is the loss of module m: the supervised loss of the outputer,
\* the reconstruction loss of layer i of decoder i or autoencoder i
CriterionOfModule(c, m) ==
  \/ (c = SupCriterion /\ m = Outputer)
  \/ \E i \in Layers(sae) :
        c = UnsupCriterion(i) /\ m \in {Dec(i), AE(i)}

InMultiLossPhase ==
  /\ InTrain
  /\ machine \in {SelectiveM, UnsupM, SupUnsupM}

\* C29: in every multi-loss phase (selective, joint unsupervised, joint
\* supervised+unsupervised) the concatenated loss has as many criteria as
\* the active graph has terminal modules, the k-th criterion is the loss of
\* the k-th terminal module in insertion order, and the terminal modules are
\* exactly the modules nothing in the graph consumes.
C29_CriteriaMatchTerminalModules ==
  InMultiLossPhase =>
     LET g == GraphOf(machine)
         t == TerminalModules(g)
     IN /\ criterion.n_criterions = Len(t)
        /\ Len(criterion.criterions) = Len(t)
        /\ \A k \in 1 .. Len(t) : CriterionOfModule(criterion.criterions[k], t[k])
        /\ SeqRange(t) = { m \in ModuleSet(g) : Consumers(g, m) = {} }

C29_Witness ==
  /\ InMultiLossPhase
  /\ machine = SelectiveM
  /\ sae.is_noisy
  /\ sae.n_hidden_layers = MaxLayers
  /\ Selected(phase.pretrain_list) = {0, MaxLayers - 1}
  /\ TerminalModules(selective_machine) = <<AE(0), AE(MaxLayers - 1)>>
  /\ criterion.criterions = <<UnsupCriterion(0), UnsupCriterion(MaxLayers - 1)>>
  /\ pc = "example"

----------------------------------------------------------------------------
(* Main program: the fixed-size arrays of the selective and fine-tuning blocks *)

MainMade(call) == \E k \in 1 .. Len(main.log) : main.log[k] = Event("phase", call)

SelectiveBlockRan ==
  MainMade("TrainSelectiveUnsup") /\ main.flags.selective_layerwise_pretraining

FinetuneBlockRan ==
  MainMade("train") /\ main.flags.finetuning_layer_specific

\* C30: for every n_layers the configuration checks accept, every write to
\* the selective-pretraining flag array (length n_layers) and every read of
\* the 5-entry layer-specific learning-rate array stays inside the array,
\* and every pretrain_list[i] TrainSelectiveUnsup reads (i < n_layers) was
\* initialised from a command-line flag.
C30_MainArraysInBounds ==
  /\ SelectiveBlockRan =>
        LET a == SelectiveFlagsArray(main.flags)
        IN /\ a.written \subseteq 0 .. a.length - 1
           /\ a.read \subseteq a.written
  /\ FinetuneBlockRan =>
        FinetuneRatesArray(main.flags).read
           \subseteq 0 .. FinetuneRatesArray(main.flags).length - 1

\* what holds: the learning-rate array is always used inside its bounds, and
\* the flag array is when n_layers is 4
C30_RatesInBoundsAndFlagsAtFourLayers ==
  /\ FinetuneBlockRan => AccessesInBounds(FinetuneRatesArray(main.flags))
  /\ (SelectiveBlockRan /\ main.flags.n_layers = LayerSpecificLimit) =>
        AccessesInBounds(SelectiveFlagsArray(main.flags))

\* one hidden layer: flags has one entry and flags[1], flags[2], flags[3]
\* were written past its end
C30_Witness ==
  /\ SelectiveBlockRan
  /\ main.flags.n_layers = 1
  /\ SelectiveFlagsArray(main.flags).length = 1
  /\ 3 \in SelectiveFlagsArray(main.flags).written
  /\ main.pc = "exit"

====
